---- MODULE Spec2Model ----
(***************************************************************************)
(* Delta-neutral funding-rate bot for Hyperliquid and Pacifica:            *)
(* the persistent state store, the recovery reconciler and the position    *)
(* lifecycle of src/hyperliquid_pacifica_hedge.py.                         *)
(*                                                                         *)
(* Python None is the empty sequence <<>> and a present value v is <<v>>,  *)
(* so that "x is None" is x = None and the value is x[1].                  *)
(***************************************************************************)
EXTENDS Integers, Sequences, FiniteSets, TLC

VARIABLES
    pc,                 \* where the process is: not running, in the run loop, inside save()
    state,              \* StateManager.state, the in-memory state dict
    fs,                 \* the files: path -> [exists, content]
    hl,                 \* live Hyperliquid quantity per symbol (signed)
    pa,                 \* live Pacifica quantity per symbol (signed)
    shutdown_requested, \* RotationBot.shutdown_requested
    now,                \* the clock, in hold-duration ticks
    orders,             \* the orders the operation now running (or the last one) has sent
    last,               \* what the last operation was given and what it returned
    faults,             \* how many injected failures (save errors, crashes, restarts) so far
    pending,            \* the cycle in flight (open_position's arguments, the leverage set), or None
    config,             \* RotationBot.config, the BotConfig in effect
    config_file         \* the BotConfig the configuration file holds, None when unreadable

vars == <<pc, state, fs, hl, pa, shutdown_requested, now, orders, last, faults, pending,
          config, config_file>>

----------------------------------------------------------------------------
(* Bounds of the model *)

\* json.dump reaches the file in this many pieces; a crash may fall between any two
FileChunks == 2
\* how many save() calls may fail, over one behaviour
MaxSaveFailures == 1
\* how many times the process may be killed, over one behaviour
MaxCrashes == 1
\* how many times the operator starts the bot again after it stopped
MaxRestarts == 1
\* the clock stops here
MaxTime == 1
MaxCycles == 1
\* the longest configured sleep, in seconds
MaxSleepSeconds == 5

----------------------------------------------------------------------------
(* BotState *)

IDLE == "IDLE"
ANALYZING == "ANALYZING"
OPENING == "OPENING"
HOLDING == "HOLDING"
CLOSING == "CLOSING"
WAITING == "WAITING"
ERROR == "ERROR"
SHUTDOWN == "SHUTDOWN"

BotState == {IDLE, ANALYZING, OPENING, HOLDING, CLOSING, WAITING, ERROR, SHUTDOWN}

None == <<>>
Some(v) == <<v>>

Abs(x) == IF x < 0 THEN -x ELSE x
Max2(a, b) == IF a >= b THEN a ELSE b
Min2(a, b) == IF a <= b THEN a ELSE b

----------------------------------------------------------------------------
(* StateManager *)

\* StateManager.__init__: the state a fresh process starts with
DefaultState ==
    [ state |-> IDLE,
      current_cycle_number |-> 0,
      current_position |-> None,
      cumulative_stats |-> [ total_cycles |-> 0, successful_cycles |-> 0,
                             failed_cycles |-> 0, total_realized_pnl |-> 0 ],
      initial_capital |-> None ]

\* the two paths save() touches
state_file == "bot_state.json"
temp_file == "bot_state.json.tmp"
Paths == {state_file, temp_file}

Missing == [exists |-> FALSE, content |-> <<>>]

\* json.dump(self.state, f): the text of the state, as the pieces that reach the file
Serialize(d) == [i \in 1..FileChunks |-> [piece |-> i, of |-> d]]

\* json.load(f) succeeds exactly on a complete text
Parses(content) == Len(content) = FileChunks /\ content = Serialize(content[1].of)
Parsed(content) == content[1].of

\* the path save() writes the new text to, before the rename
SaveTargetMutant == state_file
SaveTarget == temp_file

\* open(temp_file, 'w'): creates or truncates
FsOpenW(f, path) == [f EXCEPT ![path] = [exists |-> TRUE, content |-> <<>>]]
\* one more piece of the text reaches the file
FsWrite(f, path, d) ==
    [f EXCEPT ![path].content = Append(@, Serialize(d)[Len(@) + 1])]
\* os.replace(temp_file, state_file): atomic rename over the canonical path
FsReplace(f, src, dst) ==
    IF src = dst THEN f
    ELSE [f EXCEPT ![dst] = f[src], ![src] = Missing]

RECURSIVE FsWriteN(_, _, _, _)
FsWriteN(f, path, d, n) ==
    IF n = 0 THEN f ELSE FsWriteN(FsWrite(f, path, d), path, d, n - 1)

\* How far a save() gets: it fails at open (-1), after k pieces (0..FileChunks, the
\* last being a failure of the rename), or goes through (SaveOk).
SaveOk == FileChunks + 1
SaveOutcomes == -1..SaveOk
SaveFailures == SaveOutcomes \ {SaveOk}

\* StateManager.save, whole: the files after save() of state d with the given outcome.
\* An exception anywhere is caught and logged; save() returns normally either way.
Save(f, d, outcome) ==
    IF outcome = SaveOk
    THEN FsReplace(FsWriteN(FsOpenW(f, SaveTarget), SaveTarget, d, FileChunks),
                   SaveTarget, state_file)
    ELSE IF outcome = -1 THEN f
         ELSE FsWriteN(FsOpenW(f, SaveTarget), SaveTarget, d, outcome)

\* StateManager.set_state, line 189: self.state["state"] = new_state
TransitionMutant(st, new_state) == st
Transition(st, new_state) == [st EXCEPT !.state = new_state]

\* StateManager.set_state, whole: the transition, then save()
SetState(st, f, new_state, outcome) ==
    [ state |-> Transition(st, new_state),
      fs |-> Save(f, Transition(st, new_state), outcome) ]

\* StateManager.load: a missing, unreadable or unparsable file is absence
LoadMutant(st, f, readable) ==
    IF ~f[state_file].exists THEN [state |-> st, ret |-> FALSE, raised |-> FALSE]
    ELSE IF ~readable \/ ~Parses(f[state_file].content)
         THEN [state |-> st, ret |-> FALSE, raised |-> TRUE]
         ELSE [state |-> Parsed(f[state_file].content), ret |-> TRUE, raised |-> FALSE]
Load(st, f, readable) ==
    IF ~f[state_file].exists THEN [state |-> st, ret |-> FALSE, raised |-> FALSE]
    ELSE IF ~readable \/ ~Parses(f[state_file].content)
         THEN [state |-> st, ret |-> FALSE, raised |-> FALSE]
         ELSE [state |-> Parsed(f[state_file].content), ret |-> TRUE, raised |-> FALSE]

\* StateManager.get_state
GetState(st) == st.state

----------------------------------------------------------------------------
(* Position records *)

Hyperliquid == "Hyperliquid"
Pacifica == "Pacifica"

\* symbols_to_monitor as the configuration file gives it, in configured order
symbols_to_monitor == <<"BTC", "ETH">>
Symbols == {symbols_to_monitor[i] : i \in 1..Len(symbols_to_monitor)}

\* hold_duration_hours as the configuration file gives it, in clock ticks
hold_duration_hours == 1

\* the dict stored under "current_position"; a key the code leaves out is None
Position(symbol, opened_at, long_exchange, short_exchange, notional, leverage, entry_balance_hl, entry_balance_pacifica) ==
    [ symbol |-> symbol,
      opened_at |-> opened_at,
      target_close_at |-> opened_at + config.hold_duration_hours,
      long_exchange |-> long_exchange,
      short_exchange |-> short_exchange,
      notional |-> notional,
      leverage |-> leverage,
      entry_balance_hl |-> entry_balance_hl,
      entry_balance_pacifica |-> entry_balance_pacifica ]

NoFaults == [save_failures |-> 0, crashes |-> 0, restarts |-> 0, cycles |-> 0]
NoLast == [op |-> "none"]

----------------------------------------------------------------------------
(* The two venues *)

\* what a venue may answer to a market order: a fill of the whole quantity, a
\* fill that leaves one unit, no fill (the call returns None), or an exception
OrderResults == {"filled", "partial", "none", "raise"}
Confirmed(result) == result \in {"filled", "partial"}

Sign(q) == IF q > 0 THEN 1 ELSE IF q < 0 THEN -1 ELSE 0

\* the quantity a market order of the given size fills
Filled(size, result) ==
    IF result = "filled" THEN size
    ELSE IF result = "partial" THEN Max2(size - 1, 0)
    ELSE 0

Order(venue, symbol, side, quantity, reduce_only) ==
    [ venue |-> venue, symbol |-> symbol, side |-> side,
      quantity |-> quantity, reduce_only |-> reduce_only ]

\* HyperliquidConnector.market_close(coin): the exchange closes the whole live
\* position with one reduce-only order on the opposite side
HlCloseOrder(symbol, q) ==
    Order(Hyperliquid, symbol, IF q > 0 THEN "sell" ELSE "buy", Abs(q), TRUE)
HlAfterClose(q, result) == q - Sign(q) * Filled(Abs(q), result)

\* HyperliquidConnector.market_open(coin, is_buy, size=size)
HlOpenOrder(symbol, is_buy, size) ==
    Order(Hyperliquid, symbol, IF is_buy THEN "buy" ELSE "sell", size, FALSE)
HlAfterOpen(q, is_buy, size, result) ==
    q + (IF is_buy THEN 1 ELSE -1) * Filled(size, result)

\* PacificaClient.place_market_order(symbol, side, quantity, reduce_only)
PacificaOrder(symbol, side, quantity, reduce_only) ==
    Order(Pacifica, symbol, side, quantity, reduce_only)
PacificaAfterOrder(q, side, quantity, reduce_only, result) ==
    LET want == IF reduce_only THEN Min2(quantity, IF side = "sell" THEN Max2(q, 0) ELSE Max2(-q, 0))
                ELSE quantity
    IN q + (IF side = "buy" THEN 1 ELSE -1) * Filled(want, result)

----------------------------------------------------------------------------
(* State recovery *)

\* the tolerated imbalance of the two legs, in percent of the larger leg
TolerancePct == 5

\* scan_symbols_for_positions: the symbols with a nonzero size on either venue, in
\* configured order; a symbol whose query raises is skipped
RECURSIVE ScanFrom(_, _, _, _)
ScanFrom(i, h, p, scan_fail) ==
    IF i > Len(config.symbols_to_monitor) THEN <<>>
    ELSE LET symbol == config.symbols_to_monitor[i]
             rest == ScanFrom(i + 1, h, p, scan_fail)
         IN IF symbol \notin scan_fail /\ (h[symbol] # 0 \/ p[symbol] # 0)
            THEN <<[symbol |-> symbol, hyperliquid_size |-> h[symbol],
                    pacifica_size |-> p[symbol]]>> \o rest
            ELSE rest
scan_symbols_for_positions(h, p, scan_fail) == ScanFrom(1, h, p, scan_fail)

\* recover_state, line 447: the legs are not delta-neutral
NotDeltaNeutralMutant(hl_size, pacifica_size) ==
    Abs(hl_size + pacifica_size) * 100 >= Max2(Abs(hl_size), Abs(pacifica_size)) * TolerancePct
NotDeltaNeutral(hl_size, pacifica_size) ==
    Abs(hl_size + pacifica_size) * 100 > Max2(Abs(hl_size), Abs(pacifica_size)) * TolerancePct

\* recover_state, lines 423-424 and 431-432: a flattening order that returns None
\* or raises is a failure
FlattenedMutant(result) == result # "raise"
Flattened(result) == Confirmed(result)

\* recover_state, lines 427-428: the order that offsets a Pacifica quantity
CloseSideMutant(size) == IF size > 0 THEN "buy" ELSE "sell"
CloseSide(size) == IF size > 0 THEN "sell" ELSE "buy"

\* recover_state, lines 393 and 437: state_mgr.state["current_position"] = None
ClearPositionMutant(st) == st
ClearPosition(st) == [st EXCEPT !.current_position = None]

\* recover_state, line 397: positions on more than one symbol
AmbiguousMutant(found) == Len(found) > 2
Ambiguous(found) == Len(found) > 1

\* recover_state, line 384: the last states recovery refuses to touch
RefusedStates == {OPENING, CLOSING}

\* what recover_state asks of the world: which position queries raise, what the
\* venue answers to the flattening order, the mid price (None when missing), the
\* leverage, whether one of those two queries raises, and how far save() gets
RecoverEnv(scan_fail, close, mid_price, leverage, query_raises, save) ==
    [ scan_fail |-> scan_fail, close |-> close, mid_price |-> mid_price,
      leverage |-> leverage, query_raises |-> query_raises, save |-> save ]

Outcome(st, f, h, p, sent, ret, found) ==
    [ state |-> st, fs |-> f, hl |-> h, pa |-> p, orders |-> sent, ret |-> ret,
      positions_found |-> found ]

\* recover_state, lines 408-444: one venue only holds the symbol
RecoverOrphan(st, f, h, p, env, found) ==
    LET pos_info == found[1]
        symbol == pos_info.symbol
        hl_size == pos_info.hyperliquid_size
        pacifica_size == pos_info.pacifica_size
        is_orphan_hl == hl_size # 0 /\ pacifica_size = 0
        close_qty == Abs(pacifica_size)
        close_side == CloseSide(pacifica_size)
        sent == IF is_orphan_hl THEN <<HlCloseOrder(symbol, h[symbol])>>
                ELSE <<PacificaOrder(symbol, close_side, close_qty, TRUE)>>
        h2 == IF is_orphan_hl
              THEN [h EXCEPT ![symbol] = HlAfterClose(@, env.close)] ELSE h
        p2 == IF is_orphan_hl THEN p
              ELSE [p EXCEPT ![symbol] =
                        PacificaAfterOrder(@, close_side, close_qty, TRUE, env.close)]
    IN IF Flattened(env.close)
       THEN LET r == SetState(ClearPosition(st), f, IDLE, env.save)
            IN Outcome(r.state, r.fs, h2, p2, sent, TRUE, found)
       ELSE LET r == SetState(st, f, ERROR, env.save)
            IN Outcome(r.state, r.fs, h2, p2, sent, FALSE, found)

\* recover_state, lines 452-453: the long venue is the one with the positive size
LongExchangeMutant(hl_size) == IF hl_size > 0 THEN Pacifica ELSE Hyperliquid
LongExchange(hl_size) == IF hl_size > 0 THEN Hyperliquid ELSE Pacifica

\* recover_state, lines 455-465: the stored opened_at is kept when the last state
\* was HOLDING and there is one, else the position counts as opened now
OpenedAtMutant(st, t) == t
OpenedAt(st, t) ==
    IF GetState(st) = HOLDING /\ st.current_position # None
    THEN st.current_position[1].opened_at ELSE t

\* recover_state, lines 446-491: both venues hold the symbol
RecoverPair(st, f, h, p, t, env, found) ==
    LET pos_info == found[1]
        symbol == pos_info.symbol
        hl_size == pos_info.hyperliquid_size
        pacifica_size == pos_info.pacifica_size
        long_exchange == LongExchange(hl_size)
        short_exchange == IF long_exchange = Hyperliquid THEN Pacifica ELSE Hyperliquid
        opened_at == OpenedAt(st, t)
        estimated_notional == IF env.mid_price # None
                              THEN Abs(hl_size) * env.mid_price[1] ELSE 100
    IN IF NotDeltaNeutral(hl_size, pacifica_size) \/ env.query_raises
       THEN LET r == SetState(st, f, ERROR, env.save)
            IN Outcome(r.state, r.fs, h, p, <<>>, FALSE, found)
       ELSE LET position == Position(symbol, opened_at, long_exchange, short_exchange,
                                     estimated_notional, env.leverage, None, None)
                r == SetState([st EXCEPT !.current_position = Some(position)], f,
                              HOLDING, env.save)
            IN Outcome(r.state, r.fs, h, p, <<>>, TRUE, found)

\* recover_state, whole
Refuses(st) == GetState(st) \in RefusedStates

recover_state(st, f, h, p, t, env) ==
    IF Refuses(st)
    THEN Outcome(st, f, h, p, <<>>, FALSE, <<>>)
    ELSE LET found == scan_symbols_for_positions(h, p, env.scan_fail) IN
         IF found = <<>>
         THEN LET r == SetState(ClearPosition(st), f, IDLE, env.save)
              IN Outcome(r.state, r.fs, h, p, <<>>, TRUE, found)
         ELSE IF Ambiguous(found)
         THEN LET r == SetState(st, f, ERROR, env.save)
              IN Outcome(r.state, r.fs, h, p, <<>>, FALSE, found)
         ELSE IF found[1].hyperliquid_size = 0 \/ found[1].pacifica_size = 0
         THEN RecoverOrphan(st, f, h, p, env, found)
         ELSE RecoverPair(st, f, h, p, t, env, found)

----------------------------------------------------------------------------
(* The process: RotationBot.run *)

\* what the balance queries may answer: None when the fetch raises
BalanceVals == {100}
BalanceOutcomes == {None} \cup {Some(b) : b \in BalanceVals}
TotalsOutcomes == {None} \cup {Some(<<a, b>>) : a \in BalanceVals, b \in BalanceVals}

\* what get_mid_price and get_leverage may answer
MidPrices == {Some(2)}
Leverages == {3}

Running == {"loop", "error_wake", "waiting_wake", "opening", "closing"}
Stopped == {"down", "exited", "crashed"}

\* how far a save() of the run may get, given the failures already spent: through,
\* or stopped right after the temporary file was opened (wherever save() stops
\* before the rename, the canonical file is the same)
Saves(spent) == IF spent < MaxSaveFailures THEN {SaveOk, 0} ELSE {SaveOk}

\* the answers recover_state can be given in the situation it finds; an answer
\* to a question it does not ask there is left at its first value
EnvsFor(st, h, p, scan_fail, spent) ==
    LET found == scan_symbols_for_positions(h, p, scan_fail)
        single == Len(found) = 1
        orphan == single /\ (found[1].hyperliquid_size = 0 \/ found[1].pacifica_size = 0)
        pair == single /\ ~orphan
                /\ ~NotDeltaNeutral(found[1].hyperliquid_size, found[1].pacifica_size)
    IN { RecoverEnv(scan_fail, c, a[1], a[2], a[3], sv) :
           c \in IF orphan THEN OrderResults ELSE {"filled"},
           a \in IF pair
                 THEN (MidPrices \X Leverages \X {FALSE}) \cup {<<None, 1, TRUE>>}
                 ELSE {<<None, 1, FALSE>>},
           sv \in Saves(spent) }

RecoverEnvs(st, h, p, spent) ==
    IF Refuses(st) THEN {RecoverEnv({}, "filled", None, 1, FALSE, SaveOk)}
    ELSE UNION { EnvsFor(st, h, p, scan_fail, spent) :
                   scan_fail \in SUBSET {x \in Symbols : h[x] # 0 \/ p[x] # 0} }

FailedSaves(outcome) == IF outcome = SaveOk THEN 0 ELSE 1

Tick(dt) == Min2(now + dt, MaxTime)

RecoverRecord(caller, st, env, r) ==
    [ op |-> "recover_state", caller |-> caller,
      prev |-> [state |-> GetState(st), current_position |-> st.current_position],
      hl |-> hl, pa |-> pa,
      scan_fail |-> env.scan_fail, close |-> env.close,
      query_raises |-> env.query_raises,
      after_refusal |-> last.op = "recover_state" /\ last.refused,
      refused |-> Refuses(st),
      signalled |-> shutdown_requested',
      positions_found |-> r.positions_found, ret |-> r.ret ]

\* run(), lines 629-631 and 651-653: a recovery that returns False ends the run
AfterRecoveryMutant(ret) == "loop"
AfterRecovery(ret) == IF ret THEN "loop" ELSE "exited"

\* run(), line 634: while not self.shutdown_requested
LoopContinuesMutant(flag) == TRUE
LoopContinues(flag) == ~flag

\* run(), lines 612-631: load, the initial capital, and the first recovery.
\* The signal handler is installed in __init__ (lines 523-524), so the flag may
\* be set while this runs; nothing here reads it.
\* The configuration is the one __init__ loaded (line 504): the file is edited
\* only while the process runs, in runs that do not restart.
\* The two balance reads of lines 617-621 are drawn only when initial_capital
\* is still None, and then both succeed; a failed read leaves initial_capital
\* None (only the PnL percentage of close_position depends on it).
StartupInputs ==
    { <<readable, totals, save>> :
        readable \in IF fs[state_file].exists THEN BOOLEAN ELSE {TRUE},
        totals \in {<<None, None>>} \cup ((BalanceOutcomes \ {None}) \X (BalanceOutcomes \ {None})),
        save \in Saves(faults.save_failures) }

Startup ==
    /\ pc \in Stopped
    /\ pc # "down" => faults.restarts < MaxRestarts
    /\ \E signal \in BOOLEAN : shutdown_requested' = signal
    /\ \E in \in StartupInputs, dt \in 0..1 :
         LET loaded == Load(DefaultState, fs, in[1]).state
             hl_total == in[2][1]
             pa_total == in[2][2]
             fetch == loaded.initial_capital = None
             got == fetch /\ hl_total # None /\ pa_total # None
             st == IF got THEN [loaded EXCEPT !.initial_capital = Some(hl_total[1] + pa_total[1])]
                   ELSE loaded
             f == IF got THEN Save(fs, st, in[3]) ELSE fs
             spent == faults.save_failures + (IF got THEN FailedSaves(in[3]) ELSE 0)
         IN /\ fetch = (in[2] # <<None, None>>)
            /\ hl_total = None => pa_total = None
            /\ got \/ in[3] = SaveOk
            /\ \E env \in RecoverEnvs(st, hl, pa, spent) :
                 \E r \in {recover_state(st, f, hl, pa, Tick(dt), env)} :
                 /\ state' = r.state
                 /\ fs' = r.fs
                 /\ hl' = r.hl
                 /\ pa' = r.pa
                 /\ orders' = r.orders
                 /\ last' = RecoverRecord("startup", st, env, r)
                 /\ pc' = AfterRecovery(r.ret)
                 /\ faults' = [faults EXCEPT
                                 !.save_failures = spent + FailedSaves(env.save),
                                 !.restarts = IF pc = "down" THEN @ ELSE @ + 1]
            /\ now' = Tick(dt)
    /\ pending' = None
    /\ UNCHANGED <<config, config_file>>

\* run(), lines 647-649: in ERROR the loop backs off for five minutes
ErrorSleep ==
    /\ pc = "loop"
    /\ LoopContinues(shutdown_requested)
    /\ GetState(state) = ERROR
    /\ pc' = "error_wake"
    /\ \E dt \in 0..1 : now' = Tick(dt)
    /\ UNCHANGED <<state, fs, hl, pa, shutdown_requested, orders, last, faults, pending>>
    /\ UNCHANGED <<config, config_file>>

\* run(), lines 650-653: after the back-off, recover again unless shutting down;
\* a signal may arrive while recover_state runs, which does not read the flag
ErrorRecover ==
    /\ pc = "error_wake"
    /\ IF shutdown_requested
       THEN /\ pc' = "loop"
            /\ UNCHANGED <<state, fs, hl, pa, shutdown_requested, orders, last, faults>>
       ELSE \E env \in RecoverEnvs(state, hl, pa, faults.save_failures), signal \in BOOLEAN :
              \E r \in {recover_state(state, fs, hl, pa, now, env)} :
              /\ shutdown_requested' = signal
              /\ state' = r.state
              /\ fs' = r.fs
              /\ hl' = r.hl
              /\ pa' = r.pa
              /\ orders' = r.orders
              /\ last' = RecoverRecord("error", state, env, r)
              /\ pc' = AfterRecovery(r.ret)
              /\ faults' = [faults EXCEPT !.save_failures = @ + FailedSaves(env.save)]
    /\ UNCHANGED <<now, pending>>
    /\ UNCHANGED <<config, config_file>>

\* run(), lines 634 and 663-667: the loop ends on the shutdown flag
LoopExit ==
    /\ pc = "loop"
    /\ ~LoopContinues(shutdown_requested)
    /\ pc' = "exited"
    /\ UNCHANGED <<state, fs, hl, pa, shutdown_requested, now, orders, last, faults, pending>>
    /\ UNCHANGED <<config, config_file>>

\* _signal_handler: SIGINT or SIGTERM, at any point while the process runs
SignalHandler ==
    /\ pc \in Running
    /\ ~shutdown_requested
    /\ shutdown_requested' = TRUE
    /\ UNCHANGED <<pc, state, fs, hl, pa, now, orders, last, faults, pending>>
    /\ UNCHANGED <<config, config_file>>

\* the process is killed: what it held in memory is gone, the files stay
Crash ==
    /\ pc \in Running
    /\ faults.restarts < MaxRestarts
    /\ pc' = "crashed"
    /\ state' = DefaultState
    /\ shutdown_requested' = FALSE
    /\ pending' = None
    /\ orders' = <<>>
    /\ last' = [op |-> "crash"]
    /\ UNCHANGED <<fs, hl, pa, now, faults>>
    /\ UNCHANGED <<config, config_file>>

----------------------------------------------------------------------------
(* The trading cycle: start_new_cycle, open_position, monitor_position,
   close_position.  Money is in whole dollars, quantities in lots, funding
   rates in millionths of a percent per hour. *)

\* BotConfig, as the configuration file gives it
config_leverage == 3
base_capital_allocation == 100
min_net_apr_threshold == 5
MAX_ALLOWED_LEVERAGE == 20
max_retries == 3

\* BotConfig, lines 90-98: the fields the bot reads
BotConfig(symbols, leverage, base_capital, hold_hours, threshold) ==
    [ symbols_to_monitor |-> symbols, leverage |-> leverage,
      base_capital_allocation |-> base_capital, hold_duration_hours |-> hold_hours,
      min_net_apr_threshold |-> threshold ]

\* the configuration the bot is constructed with
LoadedConfig ==
    BotConfig(symbols_to_monitor, config_leverage, base_capital_allocation,
              hold_duration_hours, min_net_apr_threshold)

\* BotConfig.load_from_file, lines 101-135: a file that is missing or does not
\* parse gives the defaults
load_from_file(file) ==
    IF file = None THEN BotConfig(<<"BTC", "ETH", "SOL">>, 3, 100, 8, 5) ELSE file[1]

\* _filter_tradable_symbols, lines 526-546: only the symbols both venues list
_filter_tradable_symbols(cfg) ==
    [cfg EXCEPT !.symbols_to_monitor = SelectSeq(@, LAMBDA s : s \in Symbols)]

\* reload_config, lines 552-597: refused while a position is stored
reload_configMutant(st, cfg, file) ==
    [config |-> _filter_tradable_symbols(load_from_file(file)), ret |-> TRUE]
reload_config(st, cfg, file) ==
    IF st.current_position # None
    THEN [config |-> cfg, ret |-> FALSE]
    ELSE [config |-> _filter_tradable_symbols(load_from_file(file)), ret |-> TRUE]

\* start_new_cycle, line 684: the available balance each venue must have
MinAvailable == 20
\* start_new_cycle, line 762: the smallest position, in dollars
MinNotional == 10

\* fetch_funding_rates: one opportunity per symbol that has a rate on both venues
OpportunityMutant(symbol, hl_rate, pacifica_rate) ==
    LET hl_apr == hl_rate * 24 * 365 * 100
        pacifica_apr == pacifica_rate * 24 * 365 * 100
        long_exch == IF hl_apr > pacifica_apr THEN Hyperliquid ELSE Pacifica
    IN [ symbol |-> symbol, hl_apr |-> hl_apr, pacifica_apr |-> pacifica_apr,
         net_apr |-> Abs(hl_apr - pacifica_apr), long_exch |-> long_exch,
         short_exch |-> IF long_exch = Hyperliquid THEN Pacifica ELSE Hyperliquid ]

Opportunity(symbol, hl_rate, pacifica_rate) ==
    LET hl_apr == hl_rate * 24 * 365 * 100
        pacifica_apr == pacifica_rate * 24 * 365 * 100
        long_exch == IF hl_apr < pacifica_apr THEN Hyperliquid ELSE Pacifica
    IN [ symbol |-> symbol, hl_apr |-> hl_apr, pacifica_apr |-> pacifica_apr,
         net_apr |-> Abs(hl_apr - pacifica_apr), long_exch |-> long_exch,
         short_exch |-> IF long_exch = Hyperliquid THEN Pacifica ELSE Hyperliquid ]

RECURSIVE FundingFrom(_, _, _, _)
FundingFrom(i, hl_rates, pacifica_rates, symbols) ==
    IF i > Len(symbols) THEN <<>>
    ELSE LET symbol == symbols[i]
             rest == FundingFrom(i + 1, hl_rates, pacifica_rates, symbols)
         IN IF pacifica_rates[symbol] = None \/ hl_rates[symbol] = None
            THEN rest
            ELSE <<Opportunity(symbol, hl_rates[symbol][1], pacifica_rates[symbol][1])>> \o rest

\* hl_rates is None when get_funding_rates raises: the code goes on with {}
fetch_funding_rates(hl_rates, pacifica_rates, symbols) ==
    FundingFrom(1, IF hl_rates = None THEN [x \in Symbols |-> None] ELSE hl_rates[1],
                pacifica_rates, symbols)

\* start_new_cycle, lines 696-697: sort by net_apr, descending and stable, take
\* the first
BestOpportunityMutant(opportunities) ==
    opportunities[CHOOSE i \in 1..Len(opportunities) :
                    \A j \in 1..Len(opportunities) :
                        /\ opportunities[j].net_apr <= opportunities[i].net_apr
                        /\ j > i => opportunities[j].net_apr < opportunities[i].net_apr]

BestOpportunity(opportunities) ==
    opportunities[CHOOSE i \in 1..Len(opportunities) :
                    \A j \in 1..Len(opportunities) :
                        /\ opportunities[j].net_apr <= opportunities[i].net_apr
                        /\ j < i => opportunities[j].net_apr < opportunities[i].net_apr]

\* start_new_cycle, line 699; the threshold is in percent
BelowThreshold(opportunity, threshold) == opportunity.net_apr < threshold * 1000000

\* start_new_cycle, line 714
FinalLeverageMutant(leverage, hl_max_leverage, pacifica_max_leverage) ==
    Min2(leverage, hl_max_leverage)
FinalLeverage(leverage, hl_max_leverage, pacifica_max_leverage) ==
    Min2(Min2(leverage, hl_max_leverage),
         Min2(pacifica_max_leverage, MAX_ALLOWED_LEVERAGE))

\* HyperliquidConnector.update_leverage, lines 131-136: the leverage the venue is
\* asked for, never above the venue's maximum
update_leverage(target_leverage, max_leverage) ==
    IF target_leverage > max_leverage THEN max_leverage ELSE target_leverage

\* HyperliquidConnector.update_leverage, lines 121-146: True when the venue answers
\* "ok", False for any other answer and for a KeyError; an exception of the
\* request itself is not caught there
UpdateLeverageResults == {"ok", "failed", "raise"}

\* PacificaClient.set_leverage: the venue is asked for the leverage given
set_leverage(leverage) == leverage

\* start_new_cycle, lines 753-769
TargetNotional(base_capital, final_leverage) == ((base_capital * 98) \div 100) * final_leverage
MaxAvailableNotional(hl_avail, pa_avail, final_leverage) ==
    Min2(hl_avail * final_leverage, pa_avail * final_leverage)
ActualNotional(base_capital, hl_avail, pa_avail, final_leverage) ==
    Min2(TargetNotional(base_capital, final_leverage),
         (MaxAvailableNotional(hl_avail, pa_avail, final_leverage) * 95) \div 100)

\* open_position, lines 797-813: round down to the coarser of the two steps;
\* quantities and steps are counted in the smallest increment, the notional in
\* that increment times the price unit
FinalQuantityMutant(notional, price, hl_step_size, pacifica_lot_size) ==
    LET coarser_step_size == Max2(hl_step_size, pacifica_lot_size)
    IN ((notional + price * coarser_step_size - 1) \div (price * coarser_step_size))
           * coarser_step_size
FinalQuantity(notional, price, hl_step_size, pacifica_lot_size) ==
    LET coarser_step_size == Max2(hl_step_size, pacifica_lot_size)
    IN (notional \div (price * coarser_step_size)) * coarser_step_size

\* a percentage is a fraction <<numerator, denominator>> with a positive
\* denominator, so that 60.0 / leverage is exact
Percent(n) == <<n, 1>>

\* calculate_dynamic_stop_loss, in percent; the last line is max(2.0, 60.0 / leverage)
calculate_dynamic_stop_lossMutant(leverage) ==
    IF leverage <= 1 THEN Percent(50)
    ELSE IF leverage = 2 THEN Percent(30)
    ELSE IF leverage = 3 THEN Percent(20)
    ELSE IF leverage = 4 THEN Percent(15)
    ELSE IF leverage = 5 THEN Percent(12)
    ELSE <<60, leverage>>
calculate_dynamic_stop_loss(leverage) ==
    IF leverage <= 1 THEN Percent(50)
    ELSE IF leverage = 2 THEN Percent(30)
    ELSE IF leverage = 3 THEN Percent(20)
    ELSE IF leverage = 4 THEN Percent(15)
    ELSE IF leverage = 5 THEN Percent(12)
    ELSE IF 2 * leverage >= 60 THEN Percent(2) ELSE <<60, leverage>>

\* check_stop_loss: (total_unrealized_pnl / notional) * 100 <= -stop_loss_percent,
\* with the divisions multiplied out
check_stop_loss(total_unrealized_pnl, notional, stop_loss_percent) ==
    IF notional <= 0 THEN FALSE
    ELSE total_unrealized_pnl * 100 * stop_loss_percent[2]
             <= (0 - stop_loss_percent[1]) * notional

\* monitor_position, lines 981-985: the stop-loss looks at the worse of the two legs
worst_pnlMutant(hl_pnl, pa_pnl) == hl_pnl + pa_pnl
worst_pnl(hl_pnl, pa_pnl) == Min2(hl_pnl, pa_pnl)

\* monitor_position, lines 986-988: the position's own stop_loss_percent when the
\* dict has the key, else the dynamic one for the position's leverage
StopLossPercent(pos, cfg) ==
    IF "stop_loss_percent" \in DOMAIN pos
    THEN Percent(pos.stop_loss_percent)
    ELSE calculate_dynamic_stop_loss(IF "leverage" \in DOMAIN pos THEN pos.leverage
                                     ELSE cfg.leverage)

\* what the venues may answer during a cycle
AvailVals == {10, 200}
BalanceInputs == {None} \cup {Some(<<a, b>>) : a \in AvailVals, b \in AvailVals}
HlRateVals == {None, Some(0), Some(6)}
PacificaRateVals == {None, Some(0), Some(6)}
HlRateInputs == {None} \cup {Some(r) : r \in [Symbols -> HlRateVals]}
PacificaRateInputs == [Symbols -> PacificaRateVals]
MaxLeverageInputs == {None, Some(<<50, 50>>)}
StepInputs == {None, Some(<<0, 1>>), Some(<<1, 2>>)}
PriceInputs == {None, Some(0), Some(50)}
PnlVals == {-300, 0}
OpenLeverages == {None, Some(3)}
ClosingBalances == {None, Some(<<110, 100>>)}

\* in close_position an order that raises and one that returns None are the same
\* failed attempt; "late" is a failed attempt whose order filled all the same,
\* "late_partial" one whose order filled by half
CloseResults == {"filled", "partial", "none", "late"}
FilledOnClose(size, result) ==
    IF result = "late" THEN size
    ELSE IF result = "late_partial" THEN size \div 2
    ELSE Filled(size, result)

\* the answers to the attempts on one leg: a venue answers every attempt alike
CloseAnswers(live) ==
    IF live = 0 THEN { [i \in 1..max_retries |-> "none"] }
    ELSE { [i \in 1..max_retries |-> r] : r \in CloseResults }

\* close_position, lines 1058-1075: the Hyperliquid leg
RECURSIVE HlCloseAttempts(_, _, _, _, _)
HlCloseAttempts(attempt, symbol, q, answers, sent) ==
    IF attempt > max_retries THEN [closed |-> FALSE, q |-> q, sent |-> sent]
    ELSE LET result == IF q = 0 THEN "none" ELSE answers[attempt]
             sent2 == IF q = 0 THEN sent ELSE Append(sent, HlCloseOrder(symbol, q))
             q2 == q - Sign(q) * FilledOnClose(Abs(q), result)
         IN IF Confirmed(result)
            THEN [closed |-> TRUE, q |-> q2, sent |-> sent2]
            ELSE HlCloseAttempts(attempt + 1, symbol, q2, answers, sent2)

\* close_position, lines 1093-1099: before a retry the position is queried again
\* and a leg found flat counts as closed
FoundFlatMutant(attempt, q) == FALSE
FoundFlat(attempt, q) == attempt < max_retries /\ q = 0

\* close_position, lines 1077-1104: the Pacifica leg, with the re-check
RECURSIVE PacificaCloseAttempts(_, _, _, _, _, _, _)
PacificaCloseAttempts(attempt, symbol, q, close_qty, close_side, answers, sent) ==
    IF attempt > max_retries THEN [closed |-> FALSE, q |-> q, sent |-> sent]
    ELSE LET result == answers[attempt]
             sent2 == Append(sent, PacificaOrder(symbol, close_side, close_qty, TRUE))
             want == Min2(close_qty, IF close_side = "sell" THEN Max2(q, 0) ELSE Max2(0 - q, 0))
             q2 == q + (IF close_side = "buy" THEN 1 ELSE -1) * FilledOnClose(want, result)
         IN IF Confirmed(result)
            THEN [closed |-> TRUE, q |-> q2, sent |-> sent2]
            ELSE IF FoundFlat(attempt, q2)
            THEN [closed |-> TRUE, q |-> q2, sent |-> sent2]
            ELSE PacificaCloseAttempts(attempt + 1, symbol, q2,
                                       IF attempt < max_retries THEN Abs(q2) ELSE close_qty,
                                       close_side, answers, sent2)

\* what close_position asks of the world
CloseEnv(query_raises, hl_answers, pacifica_answers, balances, save) ==
    [ query_raises |-> query_raises, hl_answers |-> hl_answers,
      pacifica_answers |-> pacifica_answers, balances |-> balances, save |-> save ]

CloseOutcome(st, f, h, p, sent, hl_closed, pacifica_closed, saved) ==
    [ state |-> st, fs |-> f, hl |-> h, pa |-> p, orders |-> sent,
      hl_closed |-> hl_closed, pacifica_closed |-> pacifica_closed, saved |-> saved ]

\* close_position, lines 1120-1136: the PnL of the cycle goes into the statistics;
\* a position without an entry balance counts the balance after as its entry, and
\* a balance that cannot be fetched leaves the statistics alone
RecordPnlMutant(st, pos, balances) ==
    IF balances = None THEN st
    ELSE LET pnl_hl == IF pos.entry_balance_hl = None THEN 0
                       ELSE balances[1][1] - pos.entry_balance_hl[1]
             pnl_pacifica == IF pos.entry_balance_pacifica = None THEN 0
                             ELSE balances[1][2] - pos.entry_balance_pacifica[1]
         IN [st EXCEPT !.cumulative_stats.total_cycles = @ + 1,
                       !.cumulative_stats.total_realized_pnl = @ + pnl_hl]
RecordPnl(st, pos, balances) ==
    IF balances = None THEN st
    ELSE LET pnl_hl == IF pos.entry_balance_hl = None THEN 0
                       ELSE balances[1][1] - pos.entry_balance_hl[1]
             pnl_pacifica == IF pos.entry_balance_pacifica = None THEN 0
                             ELSE balances[1][2] - pos.entry_balance_pacifica[1]
         IN [st EXCEPT !.cumulative_stats.total_cycles = @ + 1,
                       !.cumulative_stats.successful_cycles = @ + 1,
                       !.cumulative_stats.total_realized_pnl = @ + pnl_hl + pnl_pacifica]

\* close_position, line 1107: both legs count as closed
AllClosedMutant(hl_closed, pacifica_closed) == hl_closed \/ pacifica_closed
AllClosed(hl_closed, pacifica_closed) == hl_closed /\ pacifica_closed

\* close_position from line 1045 on (set_state(CLOSING) is the caller's step)
close_position(st, f, h, p, is_emergency, env) ==
    IF st.current_position = None
    THEN CloseOutcome(st, f, h, p, <<>>, FALSE, FALSE, FALSE)
    ELSE LET pos == st.current_position[1]
             symbol == pos.symbol
         IN IF env.query_raises
            THEN LET r == SetState(st, f, ERROR, env.save)
                 IN CloseOutcome(r.state, r.fs, h, p, <<>>, FALSE, FALSE, TRUE)
            ELSE LET a == IF h[symbol] # 0
                          THEN HlCloseAttempts(1, symbol, h[symbol], env.hl_answers, <<>>)
                          ELSE [closed |-> TRUE, q |-> 0, sent |-> <<>>]
                     b == IF p[symbol] # 0
                          THEN PacificaCloseAttempts(1, symbol, p[symbol], Abs(p[symbol]),
                                                     CloseSide(p[symbol]),
                                                     env.pacifica_answers, a.sent)
                          ELSE [closed |-> TRUE, q |-> 0, sent |-> a.sent]
                     h2 == [h EXCEPT ![symbol] = a.q]
                     p2 == [p EXCEPT ![symbol] = b.q]
                 IN IF AllClosed(a.closed, b.closed)
                    THEN LET counted == IF is_emergency THEN st
                                        ELSE RecordPnl(st, pos, env.balances)
                             r == SetState(ClearPosition(counted), f, WAITING, env.save)
                         IN CloseOutcome(r.state, r.fs, h2, p2, b.sent, a.closed, b.closed, TRUE)
                    ELSE LET r == SetState(st, f, ERROR, env.save)
                         IN CloseOutcome(r.state, r.fs, h2, p2, b.sent, a.closed, b.closed, TRUE)

CloseEnvs(st, h, p, is_emergency, spent) ==
    IF st.current_position = None
    THEN {CloseEnv(FALSE, [i \in 1..max_retries |-> "none"],
                   [i \in 1..max_retries |-> "none"], None, SaveOk)}
    ELSE LET symbol == st.current_position[1].symbol IN
         { CloseEnv(FALSE, x, y, b, sv) :
             x \in CloseAnswers(h[symbol]), y \in CloseAnswers(p[symbol]),
             b \in IF is_emergency THEN {None} ELSE ClosingBalances,
             sv \in Saves(spent) }
         \cup { CloseEnv(TRUE, [i \in 1..max_retries |-> "none"],
                         [i \in 1..max_retries |-> "none"], None, sv) : sv \in Saves(spent) }

\* set_state(new_state) as the last thing a handler does before the loop goes on
Leave(st, f, spent, new_state) ==
    \E sv \in Saves(spent) :
        LET r == SetState(st, f, new_state, sv) IN
        /\ state' = r.state
        /\ fs' = r.fs
        /\ faults' = [faults EXCEPT !.save_failures = spent + FailedSaves(sv),
                                    !.cycles = IF new_state = OPENING THEN @ + 1 ELSE @]
        /\ pc' = IF new_state = OPENING THEN "opening"
                 ELSE IF new_state = CLOSING THEN "closing" ELSE "loop"

\* start_new_cycle, lines 684-782: the state each way out of the analysis sets.
\* An exception other than BalanceFetchError ends in ERROR, every return and the
\* BalanceFetchError in WAITING
AbortStateMutant(outcome) ==
    IF outcome \in {"error", "hl_leverage_raised", "balance_fetch_failed"} THEN ERROR ELSE WAITING

AbortState(outcome) ==
    IF outcome \in {"error", "hl_leverage_raised"} THEN ERROR ELSE WAITING

\* what start_new_cycle was given and how it ended; the run keeps only the name
\* of the operation
CycleRecord(detailed, outcome, cfg, bal, hl_rates, pacifica_rates, found, chosen) ==
    IF detailed
    THEN [ op |-> "start_new_cycle", outcome |-> outcome,
           symbols |-> cfg.symbols_to_monitor, threshold |-> cfg.min_net_apr_threshold,
           balances |-> bal, hl_rates |-> hl_rates, pacifica_rates |-> pacifica_rates,
           opportunities |-> found, chosen |-> chosen ]
    ELSE [op |-> "start_new_cycle"]

\* start_new_cycle, up to set_state(OPENING) in open_position; max_leverages is
\* what the two venues may list as the symbol's maximum leverage, hl_rate_inputs
\* and pacifica_rate_inputs what they may answer for the funding rates
StartNewCycleWith(max_leverages, hl_rate_inputs, pacifica_rate_inputs, detailed) ==
    /\ pc = "loop"
    /\ LoopContinues(shutdown_requested)
    /\ GetState(state) = IDLE
    /\ faults.cycles < MaxCycles
    /\ \E sv \in Saves(faults.save_failures), bal \in BalanceInputs :
         LET a == SetState(state, fs, ANALYZING, sv)
             spent == faults.save_failures + FailedSaves(sv)
             cfg == reload_config(a.state, config, config_file).config
             Abort(outcome, hl_rates, pacifica_rates, found, chosen) ==
                 /\ Leave(a.state, a.fs, spent, AbortState(outcome))
                 /\ pending' = None
                 /\ last' = CycleRecord(detailed, outcome, cfg, bal, hl_rates,
                                        pacifica_rates, found, chosen)
         IN config' = cfg /\
            IF bal = None THEN Abort("balance_fetch_failed", None, None, <<>>, None)
            ELSE IF bal[1][1] < MinAvailable \/ bal[1][2] < MinAvailable
            THEN Abort("insufficient_balance", None, None, <<>>, None)
            ELSE \E hl_rates \in hl_rate_inputs, pacifica_rates \in pacifica_rate_inputs :
              LET opportunities ==
                      fetch_funding_rates(hl_rates, pacifica_rates, cfg.symbols_to_monitor)
                  rates == Some(pacifica_rates)
              IN IF opportunities = <<>>
                 THEN Abort("no_opportunity", hl_rates, rates, opportunities, None)
                 ELSE IF BelowThreshold(BestOpportunity(opportunities), cfg.min_net_apr_threshold)
                 THEN Abort("below_threshold", hl_rates, rates, opportunities,
                            Some(BestOpportunity(opportunities)))
                 ELSE \E max \in max_leverages, hl_set \in UpdateLeverageResults,
                         pacifica_ok \in BOOLEAN :
                   LET best_opportunity == BestOpportunity(opportunities)
                       final_leverage == FinalLeverage(cfg.leverage, max[1][1], max[1][2])
                       max_available_notional ==
                           MaxAvailableNotional(bal[1][1], bal[1][2], final_leverage)
                   IN IF max = None
                      THEN Abort("error", hl_rates, rates, opportunities,
                                 Some(best_opportunity))
                      ELSE IF hl_set = "raise"
                      THEN pacifica_ok /\ Abort("hl_leverage_raised", hl_rates, rates,
                                                opportunities,
                                                Some(best_opportunity))
                      ELSE IF hl_set = "failed"
                      THEN pacifica_ok /\ Abort("hl_leverage_failed", hl_rates, rates,
                                                opportunities,
                                                Some(best_opportunity))
                      ELSE IF ~pacifica_ok
                      THEN Abort("pacifica_leverage_failed", hl_rates, rates,
                                 opportunities,
                                 Some(best_opportunity))
                      ELSE IF max_available_notional < MinNotional
                      THEN Abort("insufficient_capital", hl_rates, rates, opportunities,
                                 Some(best_opportunity))
                      ELSE /\ Leave(a.state, a.fs, spent, OPENING)
                           /\ last' = CycleRecord(detailed, "open", cfg, bal, hl_rates, rates,
                                                  opportunities, Some(best_opportunity))
                           /\ pending' = Some([opportunity |-> best_opportunity,
                                               notional |->
                                                   ActualNotional(cfg.base_capital_allocation,
                                                                  bal[1][1], bal[1][2],
                                                                  final_leverage),
                                               final_leverage |-> final_leverage,
                                               max_leverage |-> max[1],
                                               hl_leverage |->
                                                   update_leverage(final_leverage, max[1][1]),
                                               pacifica_leverage |-> set_leverage(final_leverage)])
    /\ orders' = <<>>
    /\ UNCHANGED <<hl, pa, shutdown_requested, now, config_file>>

StartNewCycle ==
    StartNewCycleWith(MaxLeverageInputs, HlRateInputs, PacificaRateInputs, FALSE)

\* what open_position did: the legs it opened, and whether it ended in its
\* exception handler
(* open_position refuses a quantity that rounded down to nothing *)
QuantityRejectedMutant(final_quantity) == final_quantity < 0

QuantityRejected(final_quantity) == final_quantity <= 0

OpenRecord(symbol, opened_hl, opened_pacifica, failed, legs, final_quantity) ==
    [ op |-> "open_position", symbol |-> symbol, stored |-> state.current_position,
      opened_hl |-> opened_hl, opened_pacifica |-> opened_pacifica, failed |-> failed,
      hl_confirmed |-> legs[1], pacifica_confirmed |-> legs[2],
      opportunity |-> pending[1].opportunity,
      long_exch |-> pending[1].opportunity.long_exch, notional |-> pending[1].notional,
      final_leverage |-> pending[1].final_leverage, hl_leverage |-> pending[1].hl_leverage,
      pacifica_leverage |-> pending[1].pacifica_leverage,
      max_leverage |-> pending[1].max_leverage,
      final_quantity |-> final_quantity,
      signalled |-> shutdown_requested ]

\* open_position, line 832: both orders returned a fill
BothLegsOpenedMutant(hl_result, pacifica_result) ==
    Confirmed(hl_result) \/ Confirmed(pacifica_result)
BothLegsOpened(hl_result, pacifica_result) ==
    Confirmed(hl_result) /\ Confirmed(pacifica_result)

\* open_position, lines 803-806: without a valid price the trade is skipped for
\* this cycle and the bot waits
SkippedOpenStateMutant == OPENING

SkippedOpenState == WAITING

\* open_position, lines 852-856: the exception handler
OpenFails(st, h, p, sent, symbol, legs, final_quantity) ==
    \E env \in CloseEnvs(st, h, p, TRUE, faults.save_failures) :
      \E c \in {close_position(st, fs, h, p, TRUE, env)} :
        /\ Leave(c.state, c.fs,
                 faults.save_failures + (IF c.saved THEN FailedSaves(env.save) ELSE 0), ERROR)
        /\ hl' = c.hl
        /\ pa' = c.pa
        /\ orders' = sent \o c.orders
        /\ last' = OpenRecord(symbol, h[symbol], p[symbol], TRUE, legs, final_quantity)

\* open_position, after set_state(OPENING); prices is what get_mark_price may answer
OpenPositionWith(prices) ==
    /\ pc = "opening"
    /\ pending # None
    /\ LET opportunity == pending[1].opportunity
           notional == pending[1].notional
           symbol == opportunity.symbol
           hl_first == opportunity.long_exch = Hyperliquid
       IN \E steps \in StepInputs, price \in prices :
            IF steps = None \/ price = None
            THEN OpenFails(state, hl, pa, <<>>, symbol, <<FALSE, FALSE>>, None)
            ELSE IF steps[1][1] = 0
            THEN price = Some(0) /\ OpenFails(state, hl, pa, <<>>, symbol, <<FALSE, FALSE>>, None)
            ELSE IF price[1] <= 0
            THEN /\ Leave(state, fs, faults.save_failures, SkippedOpenState)
                 /\ last' = OpenRecord(symbol, 0, 0, FALSE, <<FALSE, FALSE>>, None)
                 /\ orders' = <<>>
                 /\ UNCHANGED <<hl, pa>>
            ELSE LET final_quantity == FinalQuantity(notional, price[1], steps[1][1], steps[1][2])
                 IN IF QuantityRejected(final_quantity)
                    THEN OpenFails(state, hl, pa, <<>>, symbol, <<FALSE, FALSE>>,
                                   Some(final_quantity))
                 ELSE \E first \in OrderResults :
                      \E second \in IF first = "raise" THEN {"raise"} ELSE OrderResults :
                   LET hl_result == IF hl_first THEN first ELSE second
                       pacifica_result == IF hl_first THEN second ELSE first
                       hl_sent == hl_first \/ first # "raise"
                       pacifica_sent == ~hl_first \/ first # "raise"
                       hl_order == HlOpenOrder(symbol, hl_first, final_quantity)
                       pacifica_order == PacificaOrder(symbol, IF hl_first THEN "sell" ELSE "buy",
                                                       final_quantity, FALSE)
                       h2 == IF hl_sent
                             THEN [hl EXCEPT ![symbol] =
                                      HlAfterOpen(@, hl_first, final_quantity, hl_result)]
                             ELSE hl
                       p2 == IF pacifica_sent
                             THEN [pa EXCEPT ![symbol] =
                                      PacificaAfterOrder(@, IF hl_first THEN "sell" ELSE "buy",
                                                         final_quantity, FALSE, pacifica_result)]
                             ELSE pa
                       sent == IF hl_first
                               THEN <<hl_order>> \o (IF pacifica_sent THEN <<pacifica_order>> ELSE <<>>)
                               ELSE <<pacifica_order>> \o (IF hl_sent THEN <<hl_order>> ELSE <<>>)
                       legs == <<Confirmed(hl_result), Confirmed(pacifica_result)>>
                   IN IF ~BothLegsOpened(hl_result, pacifica_result)
                      THEN OpenFails(state, h2, p2, sent, symbol, legs, Some(final_quantity))
                      ELSE \E actual_leverage \in OpenLeverages,
                              totals \in TotalsOutcomes :
                        IF actual_leverage = None
                        THEN totals = None /\ OpenFails(state, h2, p2, sent, symbol, legs,
                                                         Some(final_quantity))
                        ELSE IF totals = None
                        THEN OpenFails([state EXCEPT !.current_cycle_number = @ + 1],
                                       h2, p2, sent, symbol, legs, Some(final_quantity))
                        ELSE /\ Leave([state EXCEPT
                                         !.current_cycle_number = @ + 1,
                                         !.current_position =
                                             Some(Position(symbol, now, opportunity.long_exch,
                                                           opportunity.short_exch, notional,
                                                           actual_leverage[1],
                                                           Some(totals[1][1]), Some(totals[1][2])))],
                                      fs, faults.save_failures, HOLDING)
                             /\ hl' = h2
                             /\ pa' = p2
                             /\ orders' = sent
                             /\ last' = OpenRecord(symbol, h2[symbol], p2[symbol], FALSE, legs,
                                                   Some(final_quantity))
    /\ pending' = None
    /\ UNCHANGED <<shutdown_requested, now>>
    /\ UNCHANGED <<config, config_file>>

OpenPosition == OpenPositionWith(PriceInputs)

\* monitor_position, line 872: the hold duration has ended
HoldEndedMutant(t, target_close_at) == t > target_close_at
HoldEnded(t, target_close_at) == t >= target_close_at

\* monitor_position, lines 1027-1038: the stop-loss closes the position; an error
\* while the position info is gathered is logged and closes nothing
CloseTriggeredMutant(gather_raises, triggered) == gather_raises \/ triggered
CloseTriggered(gather_raises, triggered) == ~gather_raises /\ triggered

\* what monitor_position was given: whether the hold duration had elapsed,
\* whether gathering the position info raised, and the PnL of each leg
MonitorRecord(elapsed, gather_raises, hl_pnl, pa_pnl) ==
    [ op |-> "monitor_position", elapsed |-> elapsed, gather_raises |-> gather_raises,
      hl_pnl |-> hl_pnl, pa_pnl |-> pa_pnl ]

\* monitor_position with the unrealized PnL of a leg drawn from pnls; when it
\* closes, up to set_state(CLOSING) in close_position
MonitorWith(pnls) ==
    /\ pc = "loop"
    /\ LoopContinues(shutdown_requested)
    /\ GetState(state) = HOLDING
    /\ IF state.current_position = None
       THEN /\ Leave(state, fs, faults.save_failures, IDLE)
            /\ last' = MonitorRecord(FALSE, FALSE, 0, 0)
            /\ UNCHANGED now
       ELSE LET pos == state.current_position[1] IN
            IF HoldEnded(now, pos.target_close_at)
            THEN /\ Leave(state, fs, faults.save_failures, CLOSING)
                 /\ last' = MonitorRecord(TRUE, FALSE, 0, 0)
                 /\ UNCHANGED now
            ELSE \E gather_raises \in BOOLEAN, hl_pnl \in pnls, pa_pnl \in pnls,
                    dt \in 0..1 :
                   LET stop_loss_percent == StopLossPercent(pos, config)
                   IN /\ last' = MonitorRecord(FALSE, gather_raises, hl_pnl, pa_pnl)
                      /\ gather_raises => (hl_pnl = 0 /\ pa_pnl = 0)
                      /\ IF CloseTriggered(gather_raises,
                                           check_stop_loss(worst_pnl(hl_pnl, pa_pnl),
                                                           pos.notional, stop_loss_percent))
                         THEN /\ dt = 0
                              /\ Leave(state, fs, faults.save_failures, CLOSING)
                              /\ UNCHANGED now
                         ELSE /\ now' = Tick(dt)
                              /\ UNCHANGED <<pc, state, fs, faults>>
    /\ orders' = <<>>
    /\ UNCHANGED <<hl, pa, shutdown_requested, pending>>
    /\ UNCHANGED <<config, config_file>>

\* monitor_position in a run of the bot
MonitorPosition == MonitorWith(PnlVals)

\* close_position(), after set_state(CLOSING), with the venues' answers drawn
\* from envs
ClosePositionWith(envs) ==
    /\ pc = "closing"
    /\ \E env \in envs :
         \E c \in {close_position(state, fs, hl, pa, FALSE, env)} :
           /\ state' = c.state
           /\ fs' = c.fs
           /\ hl' = c.hl
           /\ pa' = c.pa
           /\ orders' = c.orders
           /\ last' = [op |-> "close_position", hl_closed |-> c.hl_closed,
                       pacifica_closed |-> c.pacifica_closed,
                       before |-> [position |-> state.current_position,
                                   cumulative_stats |-> state.cumulative_stats],
                       balances |-> IF AllClosed(c.hl_closed, c.pacifica_closed)
                                    THEN env.balances ELSE None,
                       query_raises |-> env.query_raises,
                       hl_answers |-> env.hl_answers,
                       pacifica_answers |-> env.pacifica_answers,
                       signalled |-> shutdown_requested]
           /\ faults' = [faults EXCEPT !.save_failures =
                                          @ + (IF c.saved THEN FailedSaves(env.save) ELSE 0)]
    /\ pc' = "loop"
    /\ UNCHANGED <<shutdown_requested, now, pending>>
    /\ UNCHANGED <<config, config_file>>

\* close_position() in a run of the bot
ClosePosition == ClosePositionWith(CloseEnvs(state, hl, pa, FALSE, faults.save_failures))

\* run(), lines 641-644: WAITING sleeps through the pause between cycles
WaitingSleep ==
    /\ pc = "loop"
    /\ LoopContinues(shutdown_requested)
    /\ GetState(state) = WAITING
    /\ pc' = "waiting_wake"
    /\ \E dt \in 0..1 : now' = Tick(dt)
    /\ UNCHANGED <<state, fs, hl, pa, shutdown_requested, orders, last, faults, pending>>
    /\ UNCHANGED <<config, config_file>>

\* run(), lines 645-646: back to IDLE unless the shutdown flag was set meanwhile
WaitingWake ==
    /\ pc = "waiting_wake"
    /\ IF shutdown_requested
       THEN /\ pc' = "loop"
            /\ UNCHANGED <<state, fs, faults>>
       ELSE Leave(state, fs, faults.save_failures, IDLE)
    /\ last' = [op |-> "waiting"]
    /\ orders' = <<>>
    /\ UNCHANGED <<hl, pa, shutdown_requested, now, pending>>
    /\ UNCHANGED <<config, config_file>>

----------------------------------------------------------------------------
(* The bot from a clean start: no state file, both venues flat *)

Init ==
    /\ config = LoadedConfig
    /\ config_file = Some(LoadedConfig)
    /\ pc = "down"
    /\ state = DefaultState
    /\ fs = [path \in Paths |-> Missing]
    /\ hl = [x \in Symbols |-> 0]
    /\ pa = [x \in Symbols |-> 0]
    /\ shutdown_requested = FALSE
    /\ now = 0
    /\ orders = <<>>
    /\ last = NoLast
    /\ faults = NoFaults
    /\ pending = None

Next ==
    \/ Startup
    \/ StartNewCycle
    \/ OpenPosition
    \/ MonitorPosition
    \/ ClosePosition
    \/ WaitingSleep
    \/ WaitingWake
    \/ ErrorSleep
    \/ ErrorRecover
    \/ LoopExit
    \/ SignalHandler
    \/ Crash

Spec == Init /\ [][Next]_vars

----------------------------------------------------------------------------
(* Recovery on its own: every persisted state against every pair of venues *)

\* the live quantities recovery may find
QtyVals == {-20, -19, 0, 18, 20}
OtherQtyVals == {0, 20}
InitVenue == { q \in [Symbols -> QtyVals] :
                 \A i \in 2..Len(symbols_to_monitor) : q[symbols_to_monitor[i]] \in OtherQtyVals }

StalePosition == Position("BTC", 0, Hyperliquid, Pacifica, 40, 3, Some(100), Some(100))
PersistedStates ==
    { [DefaultState EXCEPT !.state = s, !.current_position = p, !.initial_capital = Some(200)] :
        s \in BotState, p \in {None, Some(StalePosition)} }

FileOf(d) == [exists |-> TRUE, content |-> Serialize(d)]
OnDisk(c) == [path \in Paths |-> IF path = state_file THEN c ELSE Missing]

InitRecover ==
    /\ config = LoadedConfig
    /\ config_file = Some(LoadedConfig)
    /\ \/ /\ pc = "down"
          /\ state = DefaultState
          /\ \E c \in {Missing, [exists |-> TRUE, content |-> <<>>]}
                      \cup {FileOf(d) : d \in PersistedStates} : fs = OnDisk(c)
       \/ /\ pc = "loop"
          /\ \E d \in PersistedStates :
               /\ d.state = ERROR
               /\ state = d
               /\ fs = OnDisk(FileOf(d))
    /\ hl \in InitVenue
    /\ pa \in InitVenue
    /\ shutdown_requested = FALSE
    /\ now = 1
    /\ orders = <<>>
    /\ last = NoLast
    /\ faults = [NoFaults EXCEPT !.restarts = MaxRestarts]
    /\ pending = None

NextRecover ==
    \/ Startup
    \/ ErrorSleep
    \/ ErrorRecover
    \/ LoopExit
    \/ SignalHandler

SpecRecover == InitRecover /\ [][NextRecover]_vars

----------------------------------------------------------------------------
(* Restarts after a kill in the middle of an open or of a close: the file says
   OPENING (nothing stored yet) or CLOSING (the position still stored) *)

InterruptedStates ==
    { [DefaultState EXCEPT !.state = OPENING, !.initial_capital = Some(200)],
      [DefaultState EXCEPT !.state = CLOSING, !.current_position = Some(StalePosition),
                           !.initial_capital = Some(200)] }

InitRestart ==
    /\ config = LoadedConfig
    /\ config_file = Some(LoadedConfig)
    /\ pc = "down"
    /\ state = DefaultState
    /\ \E d \in InterruptedStates : fs = OnDisk(FileOf(d))
    /\ hl \in InitVenue
    /\ pa \in InitVenue
    /\ shutdown_requested = FALSE
    /\ now = 1
    /\ orders = <<>>
    /\ last = NoLast
    /\ faults = NoFaults
    /\ pending = None

NextRestart ==
    \/ Startup
    \/ LoopExit
    \/ SignalHandler

SpecRestart == InitRestart /\ [][NextRestart]_vars

----------------------------------------------------------------------------
(* One run of the bot while the operator edits the configuration file, with
   reload_config also called between any two handlers of the loop *)

\* what the configuration file may hold: unreadable, as loaded, another leverage
ConfigFiles ==
    {None, Some(LoadedConfig), Some([LoadedConfig EXCEPT !.leverage = 2])}

InitReload ==
    /\ \E file \in ConfigFiles :
         /\ config_file = file
         /\ config = _filter_tradable_symbols(load_from_file(file))
    /\ pc = "down"
    /\ state = DefaultState
    /\ fs = [path \in Paths |-> Missing]
    /\ hl = [x \in Symbols |-> 0]
    /\ pa = [x \in Symbols |-> 0]
    /\ shutdown_requested = FALSE
    /\ now = 0
    /\ orders = <<>>
    /\ last = NoLast
    /\ faults = [NoFaults EXCEPT !.save_failures = MaxSaveFailures,
                                 !.restarts = MaxRestarts]
    /\ pending = None

\* the operator saves another configuration file while the bot runs
EditConfigFile ==
    /\ pc \in Running
    /\ \E file \in ConfigFiles \ {config_file} : config_file' = file
    /\ UNCHANGED <<pc, state, fs, hl, pa, shutdown_requested, now, orders, last, faults,
                   pending, config>>

\* reload_config called between two handlers, whatever the state is then
ReloadConfig ==
    /\ pc = "loop"
    /\ LET r == reload_config(state, config, config_file)
       IN /\ config' = r.config
          /\ last' = [op |-> "reload_config", ret |-> r.ret, before |-> config,
                      position |-> state.current_position]
    /\ orders' = <<>>
    /\ UNCHANGED <<pc, state, fs, hl, pa, shutdown_requested, now, faults, pending,
                   config_file>>

NextReload ==
    \/ Startup
    \/ StartNewCycle
    \/ OpenPosition
    \/ MonitorPosition
    \/ ClosePosition
    \/ WaitingSleep
    \/ WaitingWake
    \/ ErrorSleep
    \/ ErrorRecover
    \/ LoopExit
    \/ SignalHandler
    \/ EditConfigFile
    \/ ReloadConfig

SpecReload == InitReload /\ [][NextReload]_vars

----------------------------------------------------------------------------
(* Monitoring a held position: every leverage of the stop-loss table, with and
   without a stop_loss_percent of the position's own, against leg PnLs on both
   sides of each threshold *)

\* the leverage of the held position
MonitoredLeverages == {1, 3, 7}
\* the position's own stop_loss_percent, None when the dict has no such key
Overrides == {None, Some(10)}
\* the unrealized PnL of a leg, in dollars, for a notional of 300
LegPnlVals == {-100, -40, -30, -26, -25, 0, 100}

MonitoredPosition(leverage, override) ==
    LET pos == Position("BTC", 0, Hyperliquid, Pacifica, 300, leverage, Some(100), Some(100))
    IN IF override = None THEN pos ELSE pos @@ [stop_loss_percent |-> override[1]]

InitMonitor ==
    /\ config = LoadedConfig
    /\ config_file = Some(LoadedConfig)
    /\ pc = "loop"
    /\ \E leverage \in MonitoredLeverages, override \in Overrides :
         /\ state = [DefaultState EXCEPT
                        !.state = HOLDING,
                        !.current_cycle_number = 1,
                        !.current_position = Some(MonitoredPosition(leverage, override)),
                        !.initial_capital = Some(200)]
         /\ fs = OnDisk(FileOf(state))
    /\ hl = [x \in Symbols |-> IF x = "BTC" THEN 6 ELSE 0]
    /\ pa = [x \in Symbols |-> IF x = "BTC" THEN -6 ELSE 0]
    /\ shutdown_requested = FALSE
    /\ now = 0
    /\ orders = <<>>
    /\ last = NoLast
    /\ faults = [NoFaults EXCEPT !.save_failures = MaxSaveFailures,
                                 !.restarts = MaxRestarts, !.cycles = MaxCycles]
    /\ pending = None

\* monitor_position with the PnL of each leg anywhere around the thresholds
MonitorLegs == MonitorWith(LegPnlVals)

NextMonitor ==
    \/ MonitorLegs
    \/ ClosePosition
    \/ SignalHandler
    \/ LoopExit

SpecMonitor == InitMonitor /\ [][NextMonitor]_vars

----------------------------------------------------------------------------
(* The pure functions of sizing and of the stop-loss, applied to drawn inputs *)

\* the largest leverage calculate_dynamic_stop_loss is applied to
MaxLeverageArg == 31
CalcLeverages == (0 - 2)..MaxLeverageArg

\* HyperliquidConnector.get_step_size: 10 ** -szDecimals, in units of 0.0001
HlStepSizes == {1, 10, 100}
\* PacificaClient.get_lot_size: whatever the venue lists for the symbol
PacificaLotSizes == {1, 4, 10, 25, 100}
CalcNotionals == {5, 99, 100, 2400, 12345}
CalcPrices == {1, 3, 7}

InitCalc ==
    /\ config = LoadedConfig
    /\ config_file = Some(LoadedConfig)
    /\ pc = "calc"
    /\ state = DefaultState
    /\ fs = [path \in Paths |-> Missing]
    /\ hl = [x \in Symbols |-> 0]
    /\ pa = [x \in Symbols |-> 0]
    /\ shutdown_requested = FALSE
    /\ now = 0
    /\ orders = <<>>
    /\ last = NoLast
    /\ faults = NoFaults
    /\ pending = None

CalcFrame ==
    UNCHANGED <<pc, state, fs, hl, pa, shutdown_requested, now, orders, faults, pending,
                config, config_file>>

CalcStopLoss ==
    /\ pc = "calc"
    /\ \E leverage \in CalcLeverages :
         last' = [op |-> "calculate_dynamic_stop_loss", leverage |-> leverage,
                  ret |-> calculate_dynamic_stop_loss(leverage)]
    /\ CalcFrame

\* open_position, lines 789-813, with a valid price and step sizes
CalcQuantity ==
    /\ pc = "calc"
    /\ \E notional \in CalcNotionals, price \in CalcPrices,
          hl_step_size \in HlStepSizes, pacifica_lot_size \in PacificaLotSizes :
         last' = [op |-> "final_quantity", notional |-> notional, price |-> price,
                  hl_step_size |-> hl_step_size, pacifica_lot_size |-> pacifica_lot_size,
                  final_quantity |-> FinalQuantity(notional, price, hl_step_size,
                                                   pacifica_lot_size)]
    /\ CalcFrame

NextCalc ==
    \/ CalcStopLoss
    \/ CalcQuantity

SpecCalc == InitCalc /\ [][NextCalc]_vars

----------------------------------------------------------------------------
(* One cycle from IDLE under several configurations, venue maxima and prices *)

\* the leverage and the base capital the configuration file may give
CycleLeverages == {1, 10, 25}
CycleCapitals == {9, 100}
CycleConfigs ==
    {[LoadedConfig EXCEPT !.leverage = leverage, !.base_capital_allocation = capital] :
        leverage \in CycleLeverages, capital \in CycleCapitals}
\* the maximum leverage the two venues list for the symbol
CycleMaxLeverages == {None, Some(<<5, 8>>), Some(<<50, 50>>)}
CyclePrices == {None, Some(1), Some(50)}

InitCycle ==
    /\ \E cfg \in CycleConfigs :
         /\ config = cfg
         /\ config_file = Some(cfg)
    /\ pc = "loop"
    /\ state = DefaultState
    /\ fs = OnDisk(FileOf(state))
    /\ hl = [x \in Symbols |-> 0]
    /\ pa = [x \in Symbols |-> 0]
    /\ shutdown_requested = FALSE
    /\ now = 0
    /\ orders = <<>>
    /\ last = NoLast
    /\ faults = [NoFaults EXCEPT !.save_failures = MaxSaveFailures,
                                 !.restarts = MaxRestarts]
    /\ pending = None

StartCycle ==
    StartNewCycleWith(CycleMaxLeverages, HlRateInputs, PacificaRateInputs, FALSE)
OpenAtPrices == OpenPositionWith(CyclePrices)

NextCycle ==
    \/ StartCycle
    \/ OpenAtPrices
    \/ WaitingSleep
    \/ WaitingWake
    \/ SignalHandler
    \/ LoopExit

SpecCycle == InitCycle /\ [][NextCycle]_vars

----------------------------------------------------------------------------
(* close_position with every sequence of answers to the attempts on each leg *)

\* what an attempt to close a leg may come to
RetryResults == {"filled", "none", "late", "late_partial"}
RetryAnswers == [1..max_retries -> RetryResults]
\* the live quantity of a leg when the close begins
ClosingQuantities == {0, 4, 0 - 4}

RetryEnvs ==
    { CloseEnv(FALSE, x, y, b, sv) :
        x \in RetryAnswers, y \in RetryAnswers, b \in ClosingBalances,
        sv \in Saves(faults.save_failures) }

InitClose ==
    /\ config = LoadedConfig
    /\ config_file = Some(LoadedConfig)
    /\ pc = "closing"
    /\ state = [DefaultState EXCEPT
                   !.state = CLOSING,
                   !.current_cycle_number = 1,
                   !.current_position =
                       Some(Position("BTC", 0, Hyperliquid, Pacifica, 300, 3,
                                     Some(100), Some(100))),
                   !.initial_capital = Some(200)]
    /\ fs = OnDisk(FileOf(state))
    /\ \E h \in ClosingQuantities, p \in ClosingQuantities :
         /\ hl = [x \in Symbols |-> IF x = "BTC" THEN h ELSE 0]
         /\ pa = [x \in Symbols |-> IF x = "BTC" THEN p ELSE 0]
    /\ shutdown_requested = FALSE
    /\ now = 1
    /\ orders = <<>>
    /\ last = NoLast
    /\ faults = [NoFaults EXCEPT !.save_failures = MaxSaveFailures,
                                 !.restarts = MaxRestarts, !.cycles = MaxCycles]
    /\ pending = None

CloseWithRetries == ClosePositionWith(RetryEnvs)

NextClose ==
    \/ CloseWithRetries
    \/ SignalHandler
    \/ LoopExit

SpecClose == InitClose /\ [][NextClose]_vars

----------------------------------------------------------------------------
(* A held position in a loop that keeps running: no signal from outside, no
   crash, and every step of run() that can be taken is taken in the end *)

InitHold ==
    /\ config = LoadedConfig
    /\ config_file = Some(LoadedConfig)
    /\ pc = "loop"
    /\ state = [DefaultState EXCEPT
                   !.state = HOLDING,
                   !.current_cycle_number = 1,
                   !.current_position =
                       Some(Position("BTC", 0, Hyperliquid, Pacifica, 300, 3,
                                     Some(100), Some(100))),
                   !.initial_capital = Some(200)]
    /\ fs = OnDisk(FileOf(state))
    /\ hl = [x \in Symbols |-> IF x = "BTC" THEN 6 ELSE 0]
    /\ pa = [x \in Symbols |-> IF x = "BTC" THEN -6 ELSE 0]
    /\ shutdown_requested = FALSE
    /\ now = 0
    /\ orders = <<>>
    /\ last = NoLast
    /\ faults = [NoFaults EXCEPT !.save_failures = MaxSaveFailures,
                                 !.restarts = MaxRestarts, !.cycles = MaxCycles]
    /\ pending = None

NextHold ==
    \/ MonitorPosition
    \/ ClosePosition
    \/ WaitingSleep
    \/ WaitingWake
    \/ ErrorSleep
    \/ ErrorRecover
    \/ LoopExit

\* a close whose orders the venues accepted on both legs
CloseAccepted ==
    /\ ClosePosition
    /\ last'.hl_closed
    /\ last'.pacifica_closed

\* run() goes on to its next step whenever it has one, and the venues do not
\* refuse the orders of every close for ever
FairHold ==
    /\ WF_vars(MonitorPosition)
    /\ WF_vars(ClosePosition)
    /\ WF_vars(WaitingSleep)
    /\ WF_vars(WaitingWake)
    /\ WF_vars(ErrorSleep)
    /\ WF_vars(ErrorRecover)
    /\ WF_vars(LoopExit)
    /\ SF_vars(CloseAccepted)

SpecHold == InitHold /\ [][NextHold]_vars /\ FairHold

----------------------------------------------------------------------------
(* The analysis phase under several thresholds, symbol orders and funding rates *)

\* the hourly funding rates a venue may answer, in millionths: a difference of
\* 250 is a net APR of exactly 219 percent
SelectRateVals == {None, Some(0), Some(6), Some(250)}
SelectHlRates == {None} \cup {Some(r) : r \in [Symbols -> SelectRateVals]}
SelectPacificaRates == [Symbols -> SelectRateVals]
\* the thresholds and the orders of the symbols the configuration file may give
SelectThresholds == {5, 219}
SelectSymbolOrders == {<<"BTC", "ETH">>, <<"ETH", "BTC">>}
SelectConfigs ==
    {[LoadedConfig EXCEPT !.min_net_apr_threshold = threshold,
                          !.symbols_to_monitor = symbols] :
        threshold \in SelectThresholds, symbols \in SelectSymbolOrders}

InitSelect ==
    /\ \E cfg \in SelectConfigs :
         /\ config = cfg
         /\ config_file = Some(cfg)
    /\ pc = "loop"
    /\ state = DefaultState
    /\ fs = OnDisk(FileOf(state))
    /\ hl = [x \in Symbols |-> 0]
    /\ pa = [x \in Symbols |-> 0]
    /\ shutdown_requested = FALSE
    /\ now = 0
    /\ orders = <<>>
    /\ last = NoLast
    /\ faults = [NoFaults EXCEPT !.save_failures = MaxSaveFailures,
                                 !.restarts = MaxRestarts]
    /\ pending = None

SelectOpportunity ==
    StartNewCycleWith(MaxLeverageInputs, SelectHlRates, SelectPacificaRates, TRUE)

NextSelect ==
    \/ SelectOpportunity
    \/ OpenPosition
    \/ WaitingSleep
    \/ WaitingWake
    \/ SignalHandler
    \/ LoopExit

SpecSelect == InitSelect /\ [][NextSelect]_vars

----------------------------------------------------------------------------
(* One run from a clean start: the process is started once and never killed *)

InitLoop ==
    /\ config = LoadedConfig
    /\ config_file = Some(LoadedConfig)
    /\ pc = "down"
    /\ state = DefaultState
    /\ fs = [path \in Paths |-> Missing]
    /\ hl = [x \in Symbols |-> 0]
    /\ pa = [x \in Symbols |-> 0]
    /\ shutdown_requested = FALSE
    /\ now = 0
    /\ orders = <<>>
    /\ last = NoLast
    /\ faults = [NoFaults EXCEPT !.restarts = MaxRestarts]
    /\ pending = None

NextLoop ==
    \/ Startup
    \/ StartNewCycle
    \/ OpenPosition
    \/ MonitorPosition
    \/ ClosePosition
    \/ WaitingSleep
    \/ WaitingWake
    \/ ErrorSleep
    \/ ErrorRecover
    \/ LoopExit
    \/ SignalHandler

SpecLoop == InitLoop /\ [][NextLoop]_vars

----------------------------------------------------------------------------
(* Claims about recovery *)

\* a run of recover_state has just returned
Recovered == last.op = "recover_state"

\* the scan found one symbol, held by one venue only
OrphanFound ==
    /\ Recovered
    /\ Len(last.positions_found) = 1
    /\ (last.positions_found[1].hyperliquid_size = 0
        \/ last.positions_found[1].pacifica_size = 0)

OrphanVenue == IF last.positions_found[1].hyperliquid_size # 0 THEN Hyperliquid ELSE Pacifica
OrphanSize ==
    IF last.positions_found[1].hyperliquid_size # 0
    THEN last.positions_found[1].hyperliquid_size
    ELSE last.positions_found[1].pacifica_size

\* the persisted BotState, when the file is there and whole
PersistedIs(s) ==
    fs[state_file].exists /\ Parses(fs[state_file].content)
    /\ Parsed(fs[state_file].content).state = s

WithinTolerance(a, b) == Abs(a + b) * 100 <= Max2(Abs(a), Abs(b)) * TolerancePct

\* C1: whenever recover_state has returned, the bot is IDLE with no position, or
\* HOLDING with a position whose two live legs are within 5% of the larger one,
\* or in ERROR.
C1_RecoveredStates ==
    Recovered =>
        \/ GetState(state) = IDLE /\ state.current_position = None
        \/ /\ GetState(state) = HOLDING
           /\ state.current_position # None
           /\ WithinTolerance(hl[state.current_position[1].symbol],
                              pa[state.current_position[1].symbol])
        \/ GetState(state) = ERROR

\* C2: after recover_state found OPENING or CLOSING as the last state, the state
\* in memory and on disk is ERROR.
C2_RefusalSetsError ==
    (Recovered /\ GetState(last.prev) \in {OPENING, CLOSING}) =>
        /\ GetState(state) = ERROR
        /\ PersistedIs(ERROR)

\* C3: an orphan leg gets exactly one order, on the venue that holds it, reduce-only,
\* on the side opposite to the quantity and of exactly its size; once that order
\* is confirmed the bot is IDLE with no position.
C3_OrphanFlattenedOnce ==
    OrphanFound =>
        /\ orders = << Order(OrphanVenue, last.positions_found[1].symbol,
                             IF OrphanSize > 0 THEN "sell" ELSE "buy",
                             Abs(OrphanSize), TRUE) >>
        /\ Confirmed(last.close) =>
             /\ last.ret
             /\ GetState(state) = IDLE
             /\ state.current_position = None

\* C3 witness: a Pacifica orphan (long, so the order is a sell) was flattened and
\* the position that was stored is gone
C3_Witness ==
    /\ OrphanFound
    /\ OrphanVenue = Pacifica
    /\ OrphanSize > 0
    /\ last.close = "filled"
    /\ last.prev.current_position # None
    /\ pa[last.positions_found[1].symbol] = 0
    /\ GetState(state) = IDLE
    /\ state.current_position = None

\* C4: when the flattening order returns nothing or raises, the bot is in ERROR,
\* and no run of recover_state sends more than one order.
C4_FailedFlattenIsError ==
    /\ Recovered => Len(orders) <= 1
    /\ (OrphanFound /\ ~Confirmed(last.close)) =>
          /\ ~last.ret
          /\ GetState(state) = ERROR
          /\ Len(orders) = 1

\* C4 witness: the flattening order of a Hyperliquid orphan returned None
C4_Witness ==
    /\ OrphanFound
    /\ OrphanVenue = Hyperliquid
    /\ last.close = "none"
    /\ Len(orders) = 1
    /\ GetState(state) = ERROR
    /\ hl[last.positions_found[1].symbol] # 0

AllFlat(h, p) == \A x \in Symbols : h[x] = 0 /\ p[x] = 0

\* C9: with both venues flat on every symbol, and a last state other than OPENING
\* or CLOSING, recover_state leaves IDLE, no position, and sends no order.
C9_FlatResetsToIdle ==
    (Recovered /\ AllFlat(last.hl, last.pa) /\ GetState(last.prev) \notin {OPENING, CLOSING}) =>
        /\ last.ret
        /\ GetState(state) = IDLE
        /\ state.current_position = None
        /\ orders = <<>>
        /\ AllFlat(hl, pa)

\* C9 witness: the file said HOLDING with a position, the venues were flat
C9_Witness ==
    /\ Recovered
    /\ AllFlat(last.hl, last.pa)
    /\ GetState(last.prev) = HOLDING
    /\ last.prev.current_position # None
    /\ GetState(state) = IDLE
    /\ state.current_position = None

\* C10: when the scan finds positions on more than one symbol, recover_state
\* leaves ERROR and sends no order.
C10_SeveralSymbolsIsError ==
    (Recovered /\ Len(last.positions_found) > 1) =>
        /\ ~last.ret
        /\ GetState(state) = ERROR
        /\ orders = <<>>
        /\ hl = last.hl
        /\ pa = last.pa

\* C10 witness: two symbols held, one of them as an orphan leg
C10_Witness ==
    /\ Recovered
    /\ Len(last.positions_found) = 2
    /\ last.positions_found[2].pacifica_size = 0
    /\ GetState(state) = ERROR
    /\ orders = <<>>

\* recover_state has just returned from the call made after the error back-off
RecoveredFromError == Recovered /\ last.caller = "error"

\* the scan found one symbol, held by both venues
PairFound ==
    /\ Recovered
    /\ Len(last.positions_found) = 1
    /\ last.positions_found[1].hyperliquid_size # 0
    /\ last.positions_found[1].pacifica_size # 0

PairWithinTolerance ==
    WithinTolerance(last.positions_found[1].hyperliquid_size,
                    last.positions_found[1].pacifica_size)

SameSigned ==
    Sign(last.positions_found[1].hyperliquid_size) = Sign(last.positions_found[1].pacifica_size)

\* the position recover_state stored is the pair it found
HoldsThePair ==
    /\ GetState(state) = HOLDING
    /\ state.current_position # None
    /\ state.current_position[1].symbol = last.positions_found[1].symbol
    /\ last.ret

\* C11 as claimed: with one symbol held by both venues, recover_state leaves
\* HOLDING exactly when |qtyA + qtyB| <= 5% of the larger leg, and ERROR with no
\* order otherwise.
C11_HoldingIffWithinTolerance ==
    PairFound =>
        /\ orders = <<>>
        /\ IF PairWithinTolerance
           THEN HoldsThePair
           ELSE GetState(state) = ERROR /\ ~last.ret

\* C11 amended: the tolerance test (boundary included, same-signed legs always
\* outside) decides between HOLDING and ERROR as long as the mid-price and
\* leverage queries that rebuild the position answer; when one of them raises,
\* a pair within tolerance ends in ERROR too.  No order is sent in any case and
\* the venues are left as they were.
C11_ToleranceDecidesUnlessQueryFails ==
    PairFound =>
        /\ orders = <<>>
        /\ hl = last.hl
        /\ pa = last.pa
        /\ SameSigned => ~PairWithinTolerance
        /\ IF PairWithinTolerance /\ ~last.query_raises
           THEN HoldsThePair
           ELSE GetState(state) = ERROR /\ ~last.ret

\* C11 witness: a pair exactly on the boundary (20 against -19) was taken as
\* delta-neutral
C11_Witness ==
    /\ PairFound
    /\ Abs(last.positions_found[1].hyperliquid_size + last.positions_found[1].pacifica_size) * 100
         = Max2(Abs(last.positions_found[1].hyperliquid_size),
                Abs(last.positions_found[1].pacifica_size)) * TolerancePct
    /\ HoldsThePair
    /\ orders = <<>>

\* C19 as claimed: the recovery attempted from ERROR ends in IDLE or in ERROR.
C19_ErrorRecoveryIdleOrError ==
    RecoveredFromError => GetState(state) \in {IDLE, ERROR}

\* a run that has ended stays ended: the only step from there is the operator
\* starting the bot again
EndedRunStaysEnded ==
    pc = "exited" => (last'.op = "recover_state" /\ last'.caller = "startup")

\* C19 amended: the recovery attempted from ERROR ends in IDLE, in HOLDING (when
\* it finds a pair within tolerance) or in ERROR; when it fails the state is
\* ERROR, the run loop ends, and nothing more is done or sent until the bot is
\* started again.
C19_ErrorRecoveryOutcomes ==
    /\ [](RecoveredFromError =>
            /\ GetState(last.prev) = ERROR
            /\ GetState(state) \in {IDLE, HOLDING, ERROR}
            /\ GetState(state) = HOLDING => (PairFound /\ PairWithinTolerance)
            /\ last.ret <=> GetState(state) \in {IDLE, HOLDING}
            /\ ~last.ret => (pc = "exited" /\ Len(orders) <= 1))
    /\ [][EndedRunStaysEnded]_vars

\* C19 witness: the recovery from ERROR failed on an orphan it could not
\* flatten; the state is ERROR and the run has ended
C19_Witness ==
    /\ RecoveredFromError
    /\ ~last.ret
    /\ OrphanFound
    /\ GetState(state) = ERROR
    /\ pc = "exited"

\* the recovery from ERROR found a pair within tolerance and holds it
ErrorRecoveryReachesHolding ==
    ~(RecoveredFromError /\ GetState(state) = HOLDING)

\* the persisted BotState is one of the given ones
PersistedIn(S) ==
    fs[state_file].exists /\ Parses(fs[state_file].content)
    /\ Parsed(fs[state_file].content).state \in S

\* C20: when the bot is started again after recover_state refused, recovery goes
\* on to the venues and ends in IDLE, HOLDING or ERROR instead of refusing again.
C20_RestartAfterRefusalRecovers ==
    (Recovered /\ last.after_refusal) =>
        /\ ~last.refused
        /\ GetState(state) \in {IDLE, HOLDING, ERROR}

\* a refusal leaves the file saying OPENING or CLOSING, which is what the next
\* start reads
RefusalLeavesFile ==
    (Recovered /\ last.refused) =>
        /\ PersistedIn(RefusedStates)
        /\ GetState(state) \in RefusedStates
        /\ orders = <<>>
        /\ pc = "exited"

----------------------------------------------------------------------------
(* Claims about the opening of a position *)

\* open_position has just ended in its exception handler
OpenFailed == last.op = "open_position" /\ last.failed

\* a closing order sent to the venue after the opening orders
ClosingOrderOn(venue) ==
    \E i \in 1..Len(orders) :
        /\ orders[i].venue = venue
        /\ orders[i].symbol = last.symbol
        /\ orders[i].reduce_only

\* C5: when open_position fails with a leg opened, it has sent a closing order to
\* every venue that holds a filled leg, and the bot is in ERROR.
C5_FailedOpenUnwinds ==
    OpenFailed =>
        /\ last.opened_hl # 0 => ClosingOrderOn(Hyperliquid)
        /\ last.opened_pacifica # 0 => ClosingOrderOn(Pacifica)
        /\ GetState(state) = ERROR

\* open_position runs with no stored position, so its emergency close_position
\* returns at line 1046 before any order
OpenStartsWithoutPosition ==
    /\ pc = "opening" => state.current_position = None
    /\ OpenFailed => last.stored = None /\ (\A i \in 1..Len(orders) : ~orders[i].reduce_only)

\* open_position has just returned
Opened == last.op = "open_position"
BothConfirmed == last.hl_confirmed /\ last.pacifica_confirmed
HoldsNewPosition == GetState(state) = HOLDING /\ state.current_position # None

\* C12 as claimed: open_position leaves HOLDING with a stored Position exactly
\* when both leg orders returned a fill confirmation.
C12_HoldingIffBothFilled ==
    Opened => (HoldsNewPosition <=> BothConfirmed)

\* C12 amended: open_position leaves HOLDING with a new Position (symbol, long and
\* short venue, notional, leverage, entry balances) exactly when both orders
\* returned a fill AND the leverage and balance queries made after the fills
\* (lines 838-850) answered; when one of those raises, or an order was absent or
\* failed, no Position is stored and the state is ERROR (WAITING when no order
\* was sent for want of a price).
C12_HoldingIffFilledAndRecorded ==
    Opened =>
        /\ HoldsNewPosition <=> (BothConfirmed /\ ~last.failed)
        /\ HoldsNewPosition =>
              /\ last.stored = None
              /\ state.current_position[1].symbol = last.symbol
              /\ state.current_position[1].long_exchange = last.long_exch
              /\ state.current_position[1].short_exchange
                   = (IF last.long_exch = Hyperliquid THEN Pacifica ELSE Hyperliquid)
              /\ state.current_position[1].notional = last.notional
              /\ state.current_position[1].leverage \in Nat
              /\ state.current_position[1].entry_balance_hl # None
              /\ state.current_position[1].entry_balance_pacifica # None
        /\ ~HoldsNewPosition =>
              /\ state.current_position = None
              /\ GetState(state) \in {ERROR, WAITING}
        /\ last.failed => GetState(state) = ERROR

\* C12 witness: both orders filled and the position is held, long on Hyperliquid
C12_Witness ==
    /\ Opened
    /\ BothConfirmed
    /\ HoldsNewPosition
    /\ last.long_exch = Hyperliquid
    /\ Len(orders) = 2
    /\ hl[last.symbol] > 0
    /\ pa[last.symbol] < 0

\* this step sends an opening (not reduce-only) market order
OpeningOrderIssued ==
    /\ orders' # orders
    /\ \E i \in 1..Len(orders') : ~orders'[i].reduce_only

\* C15: an opening order is sent only while the BotState is OPENING and no
\* Position is stored, and no Position is stored whenever the BotState is IDLE,
\* ANALYZING, OPENING or WAITING.
C15_AtMostOnePosition ==
    /\ [](GetState(state) \in {IDLE, ANALYZING, OPENING, WAITING}
            => state.current_position = None)
    /\ [][OpeningOrderIssued =>
            (GetState(state) = OPENING /\ state.current_position = None)]_vars

\* C15 witness: the opening orders went out from OPENING with nothing stored,
\* and the one Position is stored now
C15_Witness ==
    /\ Opened
    /\ last.stored = None
    /\ Len(orders) >= 1
    /\ ~orders[1].reduce_only
    /\ GetState(state) = HOLDING
    /\ state.current_position # None
    /\ state.current_position[1].symbol = orders[1].symbol

----------------------------------------------------------------------------
(* Claims about the closing of a position *)

\* close_position(is_emergency=False) has just returned from a stored position
Closed == last.op = "close_position" /\ last.before.position # None
CloseSymbol == last.before.position[1].symbol

\* both venues hold nothing of the symbol
LegsFlat == hl[CloseSymbol] = 0 /\ pa[CloseSymbol] = 0
\* close_position counted both legs as closed (line 1107)
CountedClosed == last.hl_closed /\ last.pacifica_closed

\* what each venue answered to the first attempt on its leg
FirstAnswers == {last.hl_answers[1], last.pacifica_answers[1]}

\* a balance delta against the entry balance; a position without one (rebuilt
\* by recover_state) contributes nothing
Delta(entry, after) == IF entry = None THEN 0 ELSE after - entry[1]
CyclePnl ==
    Delta(last.before.position[1].entry_balance_hl, last.balances[1][1])
    + Delta(last.before.position[1].entry_balance_pacifica, last.balances[1][2])

C14_UnflatCloseIsError ==
    (Closed /\ ~LegsFlat) =>
        /\ GetState(state) = ERROR
        /\ state.current_position = last.before.position
        /\ state.cumulative_stats = last.before.cumulative_stats

\* what the code does guarantee: a leg it does not count as closed ends the call
\* in ERROR with the Position and the statistics untouched
UnclosedLegIsError ==
    (Closed /\ ~CountedClosed) =>
        /\ GetState(state) = ERROR
        /\ state.current_position = last.before.position
        /\ state.cumulative_stats = last.before.cumulative_stats

\* a confirmation that leaves a remainder is the only way a leg that is not
\* flat counts as closed
UnflatButCounted ==
    (Closed /\ ~LegsFlat /\ CountedClosed) => "partial" \in FirstAnswers

----------------------------------------------------------------------------
(* Claims about shutdown *)

\* the run loop has ended on the shutdown flag
ShutDown == pc = "exited" /\ shutdown_requested

\* C16: once the signal handler has run and the run loop has exited, the
\* BotState in memory and on disk is SHUTDOWN.
C16_SignalLeavesShutdown ==
    ShutDown => (GetState(state) = SHUTDOWN /\ PersistedIs(SHUTDOWN))

\* no run of the bot ever has SHUTDOWN as its BotState, in memory or on disk
ShutdownNeverSet ==
    /\ GetState(state) # SHUTDOWN
    /\ ~PersistedIs(SHUTDOWN)

\* the process goes on (it is not killed in this step)
Survives == pc' # "crashed"

\* with the flag set, an open in flight still ends as open_position ends
OpenRunsToCompletion ==
    (shutdown_requested /\ pc = "opening" /\ Survives) =>
        /\ pc' = "loop"
        /\ last'.op = "open_position"
        /\ last'.signalled
        /\ GetState(state') \in {HOLDING, WAITING, ERROR}

\* with the flag set, a close in flight still ends as close_position ends
CloseRunsToCompletion ==
    (shutdown_requested /\ pc = "closing" /\ Survives) =>
        /\ pc' = "loop"
        /\ last'.op = "close_position"
        /\ last'.signalled
        /\ GetState(state') \in {WAITING, ERROR}

\* with the flag set, the loop does nothing but exit
NoFurtherIteration ==
    (shutdown_requested /\ pc = "loop" /\ Survives) =>
        /\ pc' = "exited"
        /\ UNCHANGED <<state, fs, hl, pa, orders>>

\* what an operation that was signalled has done is what it does unsignalled:
\* both opening orders and the Position, an order for a leg found open, the
\* orphan's order and the final transition
SignalledOperationIsWhole ==
    /\ (Opened /\ last.signalled) =>
          /\ HoldsNewPosition <=> (BothConfirmed /\ ~last.failed)
          /\ BothConfirmed => Len(orders) = 2
          /\ GetState(state) \in {HOLDING, WAITING, ERROR}
    /\ (Closed /\ last.signalled) =>
          /\ CountedClosed <=> (GetState(state) = WAITING /\ state.current_position = None)
          /\ ~CountedClosed => GetState(state) = ERROR
          /\ (~last.query_raises /\ FirstAnswers # {"none"}) => Len(orders) >= 1
    /\ (Recovered /\ last.signalled /\ ~last.refused) =>
          /\ GetState(state) \in {IDLE, HOLDING, ERROR}
          /\ OrphanFound => Len(orders) = 1
          /\ last.ret <=> GetState(state) \in {IDLE, HOLDING}

\* C17: a termination signal during an open, a close or a reconciliation does not
\* cut the operation short (its orders and its final transition happen as they do
\* without the signal), and once the operation is over the loop exits without
\* another iteration.
C17_SignalDoesNotAbort ==
    /\ []SignalledOperationIsWhole
    /\ [][OpenRunsToCompletion /\ CloseRunsToCompletion /\ NoFurtherIteration]_vars

\* C17 witness: the signal came while the position was being opened; both orders
\* went out, the position is held, and the loop has exited
C17_Witness ==
    /\ ShutDown
    /\ Opened
    /\ last.signalled
    /\ HoldsNewPosition
    /\ Len(orders) = 2
    /\ hl[last.symbol] # 0
    /\ pa[last.symbol] # 0

----------------------------------------------------------------------------
(* The sleeps of the run loop second by second: _responsive_sleep as called for
   the pause between cycles and for the error back-off.  The clock counts
   seconds here. *)

\* _responsive_sleep, lines 601-604: one more 1-second wait is started
SleepGoesOnMutant(i, duration_seconds, flag) == i < duration_seconds
SleepGoesOn(i, duration_seconds, flag) == i < duration_seconds /\ ~flag

InSleep == {"sleep_top", "sleep_wait"}
AfterSleep == {"waiting_wake", "error_wake"}

InitSleep ==
    /\ config = LoadedConfig
    /\ config_file = Some(LoadedConfig)
    /\ pc = "loop"
    /\ \E s \in {WAITING, ERROR} :
         /\ state = [DefaultState EXCEPT !.state = s, !.initial_capital = Some(200)]
         /\ fs = OnDisk(FileOf(state))
    /\ hl = [x \in Symbols |-> 0]
    /\ pa = [x \in Symbols |-> 0]
    /\ shutdown_requested = FALSE
    /\ now = 0
    /\ orders = <<>>
    /\ last = NoLast
    /\ faults = [NoFaults EXCEPT !.restarts = MaxRestarts]
    /\ pending = None

\* run(), lines 641-644 and 647-649: the loop calls _responsive_sleep with the
\* configured pause (WAITING) or the back-off (ERROR)
SleepCall ==
    /\ pc = "loop"
    /\ LoopContinues(shutdown_requested)
    /\ GetState(state) \in {WAITING, ERROR}
    /\ \E duration_seconds \in 0..MaxSleepSeconds :
         last' = [op |-> "_responsive_sleep", duration_seconds |-> duration_seconds,
                  i |-> 0, flagged_at |-> None]
    /\ pc' = "sleep_top"
    /\ UNCHANGED <<state, fs, hl, pa, shutdown_requested, now, orders, faults, pending>>
    /\ UNCHANGED <<config, config_file>>

\* _responsive_sleep, lines 601-604: the top of the for loop; the sleep returns
\* when the range is used up or the flag is set
SleepCheck ==
    /\ pc = "sleep_top"
    /\ pc' = IF SleepGoesOn(last.i, last.duration_seconds, shutdown_requested)
             THEN "sleep_wait"
             ELSE IF GetState(state) = WAITING THEN "waiting_wake" ELSE "error_wake"
    /\ UNCHANGED <<state, fs, hl, pa, shutdown_requested, now, orders, last, faults, pending>>
    /\ UNCHANGED <<config, config_file>>

\* _responsive_sleep, line 605: await asyncio.sleep(1) is over
SleepSecond ==
    /\ pc = "sleep_wait"
    /\ now' = now + 1
    /\ last' = [last EXCEPT !.i = @ + 1]
    /\ pc' = "sleep_top"
    /\ UNCHANGED <<state, fs, hl, pa, shutdown_requested, orders, faults, pending>>
    /\ UNCHANGED <<config, config_file>>

\* _signal_handler while the bot sleeps; the record keeps the second it came in
SleepSignal ==
    /\ pc \in InSleep
    /\ ~shutdown_requested
    /\ shutdown_requested' = TRUE
    /\ last' = [last EXCEPT !.flagged_at = Some(now)]
    /\ UNCHANGED <<pc, state, fs, hl, pa, now, orders, faults, pending>>
    /\ UNCHANGED <<config, config_file>>

NextSleep ==
    \/ SleepCall
    \/ SleepCheck
    \/ SleepSecond
    \/ SleepSignal
    \/ WaitingWake
    \/ ErrorRecover
    \/ LoopExit
    \/ SignalHandler

SpecSleep == InitSleep /\ [][NextSleep]_vars

\* the flag was set during the sleep that is running or has just returned
FlaggedInSleep ==
    /\ last.op = "_responsive_sleep"
    /\ pc \in InSleep \cup AfterSleep
    /\ last.flagged_at # None

\* C18: once the flag is set during a sleep, no further 1-second wait is started
\* (the flag is looked at before every wait), the sleep has returned one second
\* later at the latest whatever the configured duration, and nothing but the exit
\* of the loop follows.
C18_SleepReturnsWithinASecond ==
    /\ [](FlaggedInSleep =>
            /\ now - last.flagged_at[1] <= 1
            /\ pc = "sleep_wait" => now = last.flagged_at[1])
    /\ [][(shutdown_requested /\ pc = "sleep_top") => pc' \in AfterSleep]_vars
    /\ [][(shutdown_requested /\ pc \in AfterSleep) =>
             (pc' = "loop" /\ UNCHANGED <<state, fs, hl, pa, orders>>)]_vars

\* C18 witness: the flag came in during the first second of a sleep with at
\* least two more seconds to go, and the sleep returned when that second was over
C18_Witness ==
    /\ FlaggedInSleep
    /\ pc \in AfterSleep
    /\ last.flagged_at = Some(0)
    /\ now = 1
    /\ last.i = 1
    /\ last.duration_seconds >= 3

----------------------------------------------------------------------------
(* The state store on its own: set_state and save step by step, with crashes *)

StorePosition == Position("BTC", 0, Hyperliquid, Pacifica, 100, 3, Some(100), Some(100))
StoreStates ==
    { [DefaultState EXCEPT !.state = s, !.current_position = p] :
        s \in {IDLE, HOLDING}, p \in {None, Some(StorePosition)} }

\* the canonical file a process may find: none, a complete one, or a damaged one
StoreFiles ==
    {Missing}
    \cup {[exists |-> TRUE, content |-> Serialize(d)] : d \in StoreStates}
    \cup {[exists |-> TRUE, content |-> SubSeq(Serialize(d), 1, k)] :
            d \in StoreStates, k \in 0..(FileChunks - 1)}

InitStore ==
    /\ config = LoadedConfig
    /\ config_file = Some(LoadedConfig)
    /\ pc = "store_down"
    /\ state = DefaultState
    /\ \E c \in StoreFiles : fs = [p \in Paths |-> IF p = state_file THEN c ELSE Missing]
    /\ hl = [s \in Symbols |-> 0]
    /\ pa = [s \in Symbols |-> 0]
    /\ shutdown_requested = FALSE
    /\ now = 0
    /\ orders = <<>>
    /\ last = NoLast
    /\ faults = NoFaults
    /\ pending = None

StoreFrame == UNCHANGED <<hl, pa, shutdown_requested, now, orders, pending, config, config_file>>

\* a new process: StateManager.__init__, then load()
StoreLoad ==
    /\ pc = "store_down"
    /\ faults.restarts < MaxRestarts + 1
    /\ \E readable \in BOOLEAN :
         LET r == Load(DefaultState, fs, readable) IN
         /\ state' = r.state
         /\ pc' = IF r.raised THEN "store_down" ELSE "store_idle"
         /\ last' = [op |-> "load", ret |-> r.ret, raised |-> r.raised,
                     readable |-> readable, file |-> fs[state_file]]
    /\ faults' = [faults EXCEPT !.restarts = @ + 1]
    /\ UNCHANGED fs
    /\ StoreFrame

\* set_state(new_state), up to the call of save(); the callers that change the
\* stored position do so right before the call
StoreSetState ==
    /\ pc = "store_idle"
    /\ \E new_state \in BotState, p \in {None, Some(StorePosition)} :
         LET st == Transition([state EXCEPT !.current_position = p], new_state) IN
         /\ state' = st
         /\ last' = [op |-> "set_state", new_state |-> new_state, data |-> st,
                     before |-> fs[state_file], returned |-> FALSE, saved |-> FALSE]
    /\ pc' = "save_open"
    /\ UNCHANGED <<fs, faults>>
    /\ StoreFrame

\* an exception inside save(): logged, and save() returns
SaveFails ==
    /\ pc \in {"save_open", "save_dump", "save_replace"}
    /\ faults.save_failures < MaxSaveFailures
    /\ faults' = [faults EXCEPT !.save_failures = @ + 1]
    /\ pc' = "store_idle"
    /\ last' = [last EXCEPT !.returned = TRUE]
    /\ UNCHANGED <<state, fs>>
    /\ StoreFrame

\* with open(temp_file, 'w') as f
SaveOpen ==
    /\ pc = "save_open"
    /\ fs' = FsOpenW(fs, SaveTarget)
    /\ pc' = "save_dump"
    /\ UNCHANGED <<state, last, faults>>
    /\ StoreFrame

\* json.dump(self.state, f): the next piece reaches the file
SaveDump ==
    /\ pc = "save_dump"
    /\ fs' = FsWrite(fs, SaveTarget, state)
    /\ pc' = IF Len(fs'[SaveTarget].content) = FileChunks THEN "save_replace" ELSE "save_dump"
    /\ UNCHANGED <<state, last, faults>>
    /\ StoreFrame

\* os.replace(temp_file, self.state_file), and save() and set_state() return
SaveReplace ==
    /\ pc = "save_replace"
    /\ fs' = FsReplace(fs, SaveTarget, state_file)
    /\ pc' = "store_idle"
    /\ last' = [last EXCEPT !.returned = TRUE, !.saved = TRUE]
    /\ UNCHANGED <<state, faults>>
    /\ StoreFrame

\* the process is killed, at any point
StoreCrash ==
    /\ pc \in {"store_idle", "save_open", "save_dump", "save_replace"}
    /\ faults.crashes < MaxCrashes
    /\ faults' = [faults EXCEPT !.crashes = @ + 1]
    /\ pc' = "store_down"
    /\ state' = DefaultState
    /\ last' = [op |-> "crash", during |-> last]
    /\ UNCHANGED fs
    /\ StoreFrame

NextStore ==
    \/ StoreLoad
    \/ StoreSetState
    \/ SaveOpen
    \/ SaveDump
    \/ SaveReplace
    \/ SaveFails
    \/ StoreCrash

SpecStore == InitStore /\ [][NextStore]_vars

\* the last call made to the store, whether or not the process was killed during it
LastCall == IF last.op = "crash" THEN last.during ELSE last

\* what a process that starts now would load
Observed(f) == Load(DefaultState, f, TRUE)

\* C6: whatever point save() has reached, and also after a kill in the middle of
\* it, a load() sees either the complete state that was on disk before the save
\* began or the complete new state, never part of a text.
C6_SaveIsAtomic ==
    LastCall.op = "set_state" =>
        \/ Observed(fs) = Observed([fs EXCEPT ![state_file] = LastCall.before])
        \/ Observed(fs).ret /\ Observed(fs).state = LastCall.data

\* C6 witness: the process was killed while the new text was half written, and a
\* complete, different, earlier state is what a load would see
C6_Witness ==
    /\ pc = "store_down"
    /\ last.op = "crash"
    /\ LastCall.op = "set_state"
    /\ ~LastCall.returned
    /\ fs[temp_file].exists
    /\ Len(fs[temp_file].content) \in 1..(FileChunks - 1)
    /\ Observed(fs).ret
    /\ Observed(fs).state # LastCall.data

AbsentFile(file, readable) ==
    ~file.exists \/ ~readable \/ ~Parses(file.content)

\* C7: load() of a missing, unreadable or corrupt file returns False, raises
\* nothing, leaves the fresh defaults in memory, and the process goes on.
C7_LoadTreatsCorruptAsAbsent ==
    (last.op = "load" /\ AbsentFile(last.file, last.readable)) =>
        /\ ~last.ret
        /\ ~last.raised
        /\ state = DefaultState
        /\ state.state = IDLE
        /\ state.current_position = None
        /\ pc = "store_idle"

\* C7 witness: a load of a file that is there but cut short
C7_Witness ==
    /\ last.op = "load"
    /\ last.file.exists
    /\ last.readable
    /\ ~Parses(last.file.content)
    /\ Len(last.file.content) > 0
    /\ pc = "store_idle"

\* the canonical file holds exactly the state d
FileHolds(f, d) ==
    f[state_file].exists /\ Parses(f[state_file].content)
    /\ Parsed(f[state_file].content) = d

\* C8 as claimed: when set_state returns, the file holds the new BotState with
\* the current position and statistics.
C8_AlwaysPersisted ==
    (last.op = "set_state" /\ last.returned) =>
        /\ state.state = last.new_state
        /\ FileHolds(fs, state)

\* C8 amended: when set_state returns the in-memory BotState is the new one, and
\* either the save went through and the file holds the whole in-memory state, or
\* the save failed and the canonical file is as it was before the call.
C8_PersistedUnlessSaveFails ==
    (last.op = "set_state" /\ last.returned) =>
        /\ state.state = last.new_state
        /\ last.saved => FileHolds(fs, state)
        /\ ~last.saved => fs[state_file] = last.before

\* C8 witness: set_state(HOLDING) with a position returned and the file holds it
C8_Witness ==
    /\ last.op = "set_state"
    /\ last.returned
    /\ last.saved
    /\ last.new_state = HOLDING
    /\ state.current_position # None
    /\ FileHolds(fs, state)
    /\ last.before # fs[state_file]

----------------------------------------------------------------------------
(* Claims about the configuration *)

\* a call of reload_config has just returned
Reloaded == last.op = "reload_config"

\* the configuration in effect is replaced in this step
ConfigChanges == config' # config

\* a call made while a position was stored was refused and changed nothing
RefusedWithPosition ==
    (Reloaded /\ last.position # None) => (~last.ret /\ config = last.before)

----------------------------------------------------------------------------
(* Claims about monitoring *)

\* a pass of monitor_position has just ended
Monitored == last.op = "monitor_position"

\* the position the pass looked at (it stays stored while the close runs)
HeldPosition == state.current_position[1]

\* a pass before the end of the hold duration whose queries all answered
StopLossPass ==
    /\ Monitored
    /\ state.current_position # None
    /\ ~last.elapsed
    /\ ~last.gather_raises

\* pnl / notional <= -percent / 100, for a positive notional
Breach(pnl, notional, percent) == pnl * 100 * percent[2] <= (0 - percent[1]) * notional

\* the position's explicit override when present, else the dynamic value
ExpectedStopLoss ==
    IF "stop_loss_percent" \in DOMAIN HeldPosition
    THEN Percent(HeldPosition.stop_loss_percent)
    ELSE calculate_dynamic_stop_loss(HeldPosition.leverage)

WorstLegBreach ==
    Breach(Min2(last.hl_pnl, last.pa_pnl), HeldPosition.notional, ExpectedStopLoss)
NettedBreach ==
    Breach(last.hl_pnl + last.pa_pnl, HeldPosition.notional, ExpectedStopLoss)

\* C22: after a monitoring pass before the end of the hold duration whose queries
\* succeeded, the state is CLOSING if and only if the worse leg's PnL over the
\* notional is at or below minus the stop-loss percentage (the position's own
\* override when it has one, else the dynamic value for its leverage); the
\* netted total of the two legs does not decide.
C22_StopLossOnWorstLeg ==
    StopLossPass => (GetState(state) = CLOSING <=> WorstLegBreach)

\* C22 witness: one leg is beyond the threshold while the netted total is not,
\* and the close has been initiated
C22_Witness ==
    /\ StopLossPass
    /\ WorstLegBreach
    /\ ~NettedBreach
    /\ GetState(state) = CLOSING
    /\ pc = "closing"

\* the netted total is beyond the threshold, the worse leg is not, nothing closes
NettedBreachDoesNotClose ==
    /\ StopLossPass
    /\ NettedBreach
    /\ ~WorstLegBreach
    /\ GetState(state) = HOLDING

\* a pass before the end of the hold duration in which a query raised
FailedPass == Monitored /\ ~last.elapsed /\ last.gather_raises

\* this step is a monitoring pass in which a query raised
FailedPassStep ==
    /\ MonitorLegs
    /\ last'.gather_raises

----------------------------------------------------------------------------
(* Claims about the stop-loss table and the order quantity *)

\* a <= b for two fractions with positive denominators
FracLeq(a, b) == a[1] * b[2] <= b[1] * a[2]

\* max(2, 60 / leverage) as a fraction
FloorOrSixty(leverage) ==
    IF FracLeq(<<60, leverage>>, Percent(2)) THEN Percent(2) ELSE <<60, leverage>>

StopLossCalled == last.op = "calculate_dynamic_stop_loss"

StopLossTable ==
    (1 :> 50) @@ (2 :> 30) @@ (3 :> 20) @@ (4 :> 15) @@ (5 :> 12) @@ (10 :> 6) @@ (20 :> 3)

StopLossValue ==
    StopLossCalled =>
        /\ last.leverage \in DOMAIN StopLossTable =>
               /\ FracLeq(last.ret, Percent(StopLossTable[last.leverage]))
               /\ FracLeq(Percent(StopLossTable[last.leverage]), last.ret)
        /\ last.leverage <= 0 => last.ret = Percent(50)
        /\ last.leverage > 5 =>
               /\ FracLeq(last.ret, FloorOrSixty(last.leverage))
               /\ FracLeq(FloorOrSixty(last.leverage), last.ret)
        /\ FracLeq(Percent(2), last.ret)

\* of two calls in a row, the one with the higher leverage returns no more
StopLossNonIncreasing ==
    (/\ StopLossCalled
     /\ last'.op = "calculate_dynamic_stop_loss"
     /\ last.leverage <= last'.leverage) => FracLeq(last'.ret, last.ret)

QuantityCalled == last.op = "final_quantity"

\* the larger of the two venues' increments
CoarserStep == Max2(last.hl_step_size, last.pacifica_lot_size)

\* C26: the order quantity is floor((notional / price) / step) * step for the
\* larger of the two increments: it is never above notional / price, it is an
\* integer multiple of that step, and it is less than one step below
\* notional / price; steps 0.001 and 0.01 with a target of 1.2345 give 1.23.
C26_RoundedDownToCoarserStep ==
    /\ QuantityCalled =>
           /\ last.final_quantity * last.price <= last.notional
           /\ last.final_quantity % CoarserStep = 0
           /\ last.notional - last.final_quantity * last.price < CoarserStep * last.price
    /\ FinalQuantity(12345, 1, 10, 100) = 12300

\* C26 witness: the example of the specification, in units of 0.0001
C26_Witness ==
    /\ QuantityCalled
    /\ last.notional = 12345
    /\ last.price = 1
    /\ last.hl_step_size = 10
    /\ last.pacifica_lot_size = 100
    /\ last.final_quantity = 12300

\* C27: the quantity sent to both venues is an integer multiple of each venue's
\* increment, whatever the two increments, the notional and the price.
C27_ValidOnBothVenues ==
    QuantityCalled =>
        /\ last.final_quantity % last.hl_step_size = 0
        /\ last.final_quantity % last.pacifica_lot_size = 0

\* the quantity is a multiple of both increments whenever the finer one divides
\* the coarser one
ValidWhenStepsNest ==
    (/\ QuantityCalled
     /\ CoarserStep % last.hl_step_size = 0
     /\ CoarserStep % last.pacifica_lot_size = 0)
        => /\ last.final_quantity % last.hl_step_size = 0
           /\ last.final_quantity % last.pacifica_lot_size = 0

----------------------------------------------------------------------------
(* Claims about leverage and sizing *)

\* open_position has just sent at least one opening order
OpeningOrdersSent == last.op = "open_position" /\ orders # <<>>

\* C24: the final leverage is the minimum of the configured leverage, the two
\* venues' maxima and the hard cap of 20, and whenever an opening order is placed
\* both venues were set to that same value before (configured 10 with maxima 5
\* and 8 gives 5).
C24_SameFinalLeverageOnBothVenues ==
    /\ OpeningOrdersSent =>
           /\ last.final_leverage <= config.leverage
           /\ last.final_leverage <= last.max_leverage[1]
           /\ last.final_leverage <= last.max_leverage[2]
           /\ last.final_leverage <= 20
           /\ last.final_leverage \in {config.leverage, last.max_leverage[1],
                                        last.max_leverage[2], 20}
           /\ last.hl_leverage = last.final_leverage
           /\ last.pacifica_leverage = last.final_leverage
    /\ pc = "opening" =>
           /\ pending[1].hl_leverage = pending[1].final_leverage
           /\ pending[1].pacifica_leverage = pending[1].final_leverage
    /\ FinalLeverage(10, 5, 8) = 5

\* C24 witness: configured 10, maxima 5 and 8, both venues set to 5, orders sent
C24_Witness ==
    /\ OpeningOrdersSent
    /\ config.leverage = 10
    /\ last.max_leverage = <<5, 8>>
    /\ last.hl_leverage = 5
    /\ last.pacifica_leverage = 5

\* C25: a cycle whose resulting notional min(0.98 * base capital * leverage,
\* 0.95 * min(available) * leverage) is below 10 USD is rejected: no order is
\* placed on either venue for it.
C25_NoOrderBelowMinimumNotional ==
    (last.op = "open_position" /\ last.notional < MinNotional) => orders = <<>>

\* the check the code makes: the margin available on the poorer venue, times the
\* leverage, is at least the minimum whenever open_position is entered
AvailableNotionalAtLeastMinimum ==
    last.op = "open_position" =>
        \E hl_avail \in AvailVals, pa_avail \in AvailVals :
            /\ MaxAvailableNotional(hl_avail, pa_avail, last.final_leverage) >= MinNotional
            /\ last.notional = ActualNotional(config.base_capital_allocation, hl_avail,
                                              pa_avail, last.final_leverage)

----------------------------------------------------------------------------
(* Claims about closing *)

\* this step is close_position working on a stored Position
ClosingStep ==
    /\ pc = "closing"
    /\ last'.op = "close_position"
    /\ state.current_position # None
    /\ ~last'.query_raises

ClosedSymbol == state.current_position[1].symbol

\* the orders close_position sent to one venue, in the order sent
OrdersTo(venue) == SelectSeq(orders', LAMBDA o : o.venue = venue)

\* what is left of a leg of quantity q before attempt i, given the answers to
\* the attempts before it
RECURSIVE RemainingBefore(_, _, _)
RemainingBefore(i, q, answers) ==
    IF i = 1 THEN Abs(q)
    ELSE LET before == RemainingBefore(i - 1, q, answers)
         IN before - FilledOnClose(before, answers[i - 1])

\* the orders sent for one leg: at most max_retries, none after a confirmation,
\* each for what is left of the leg when it is sent, and none for nothing
LegClosedOnce(venue, q, answers) ==
    LET sent == OrdersTo(venue) IN
    /\ Len(sent) <= max_retries
    /\ q = 0 => sent = <<>>
    /\ \A i \in 1..Len(sent) :
          /\ \A j \in 1..(i - 1) : ~Confirmed(answers[j])
          /\ sent[i].quantity = RemainingBefore(i, q, answers)
          /\ sent[i].quantity > 0
          /\ sent[i].reduce_only
          /\ sent[i].side = CloseSide(q)

\* C30: for each leg with a nonzero live quantity close_position sends at most 3
\* closing orders and none after the first confirmation; a retry is sent only for
\* a leg that is still open and is sized to what is left of it, so that a fill
\* that arrives after a failed attempt is never closed a second time and no leg
\* ends on the other side of zero.
C30_RetriesNeverCloseTwice ==
    [][ClosingStep =>
          /\ LegClosedOnce(Hyperliquid, hl[ClosedSymbol], last'.hl_answers)
          /\ LegClosedOnce(Pacifica, pa[ClosedSymbol], last'.pacifica_answers)
          /\ hl'[ClosedSymbol] * hl[ClosedSymbol] >= 0
          /\ pa'[ClosedSymbol] * pa[ClosedSymbol] >= 0
          /\ Abs(hl'[ClosedSymbol]) <= Abs(hl[ClosedSymbol])
          /\ Abs(pa'[ClosedSymbol]) <= Abs(pa[ClosedSymbol])]_vars

\* C30 witness: the first attempt on the Pacifica leg failed and filled by half,
\* the retry was for the remaining half and was confirmed, and the leg is flat
C30_Witness ==
    /\ last.op = "close_position"
    /\ last.pacifica_answers[1] = "late_partial"
    /\ last.pacifica_answers[2] = "filled"
    /\ Len(SelectSeq(orders, LAMBDA o : o.venue = Pacifica)) = 2
    /\ SelectSeq(orders, LAMBDA o : o.venue = Pacifica)[1].quantity = 4
    /\ SelectSeq(orders, LAMBDA o : o.venue = Pacifica)[2].quantity = 2
    /\ pa["BTC"] = 0

----------------------------------------------------------------------------
(* Claims about the end of the hold *)

\* the loop is about to monitor a position whose target-close time has come
Due ==
    /\ pc = "loop"
    /\ ~shutdown_requested
    /\ GetState(state) = HOLDING
    /\ state.current_position # None
    /\ now >= state.current_position[1].target_close_at

Cleared == state.current_position = None

\* the monitoring pass of a due position initiates the close
DuePassCloses ==
    (Due /\ MonitorPosition) => (GetState(state') = CLOSING /\ pc' = "closing")

\* a close whose two legs were confirmed ends in WAITING with no Position
ConfirmedCloseClears ==
    (/\ last.op = "close_position"
     /\ last.before.position # None
     /\ ~last.query_raises
     /\ last.hl_closed
     /\ last.pacifica_closed) => (GetState(state) = WAITING /\ Cleared)

\* C29 as the code has it: the monitoring pass of a due position initiates the
\* close, a close confirmed on both legs ends in WAITING with the Position
\* cleared, and a due position is in the end cleared unless the close or the
\* recovery after it failed and left the bot in ERROR (or the bot was told to
\* shut down).
C29_DuePositionClosedOrError ==
    /\ [][DuePassCloses]_vars
    /\ []ConfirmedCloseClears
    /\ (Due ~> (Cleared \/ shutdown_requested \/ GetState(state) = ERROR))

\* C29 witness: a position closed at or after its target-close time, both legs
\* flat, the bot WAITING with no Position
C29_Witness ==
    /\ last.op = "close_position"
    /\ last.before.position # None
    /\ now >= last.before.position[1].target_close_at
    /\ last.hl_closed
    /\ last.pacifica_closed
    /\ GetState(state) = WAITING
    /\ Cleared
    /\ hl["BTC"] = 0
    /\ pa["BTC"] = 0

\* C29 as stated: under fairness and venues that accept a close in the end,
\* every due position is in the end closed.
C29_EveryDuePositionIsClosed == Due ~> (Cleared \/ shutdown_requested)

\* the run has ended in ERROR with the Position still stored and a leg open
EndedInErrorStillHeld ==
    /\ pc = "exited"
    /\ ~shutdown_requested
    /\ GetState(state) = ERROR
    /\ ~Cleared
    /\ (hl["BTC"] # 0 \/ pa["BTC"] # 0)

----------------------------------------------------------------------------
(* Claims about the Position recovery rebuilds and about the scan *)

\* recover_state has just stored a Position for the pair it found
Reconstructed == PairFound /\ HoldsThePair

RebuiltPosition == state.current_position[1]

\* the last state was HOLDING and a Position with its opened_at was stored
WasHolding == last.prev.state = HOLDING /\ last.prev.current_position # None

\* C31: the Position recover_state rebuilds keeps the stored opened-at when the
\* last state was HOLDING (and one was stored) and is opened now for every other
\* last state; its target-close is the opened-at plus the configured hold
\* duration.
C31_HoldClockSurvivesRestart ==
    Reconstructed =>
        /\ WasHolding => RebuiltPosition.opened_at = last.prev.current_position[1].opened_at
        /\ ~WasHolding => RebuiltPosition.opened_at = now
        /\ RebuiltPosition.target_close_at
              = RebuiltPosition.opened_at + config.hold_duration_hours

\* C31 witness: a restart while HOLDING, later than the stored opened-at, and the
\* rebuilt Position still has the stored opened-at
C31_Witness ==
    /\ Reconstructed
    /\ last.caller = "startup"
    /\ WasHolding
    /\ last.prev.current_position[1].opened_at < now
    /\ RebuiltPosition.opened_at = last.prev.current_position[1].opened_at

\* the live quantity of the rebuilt Position's symbol on a venue
LiveOn(venue) ==
    IF venue = Hyperliquid THEN hl[RebuiltPosition.symbol] ELSE pa[RebuiltPosition.symbol]

\* C32: the Position recover_state rebuilds has as long venue the venue whose
\* live quantity is positive and as short venue the other one, whichever of the
\* two venues is long.
C32_LongVenueHasPositiveQuantity ==
    Reconstructed =>
        /\ LiveOn(RebuiltPosition.long_exchange) > 0
        /\ LiveOn(RebuiltPosition.short_exchange) < 0
        /\ RebuiltPosition.long_exchange # RebuiltPosition.short_exchange
        /\ {RebuiltPosition.long_exchange, RebuiltPosition.short_exchange}
              = {Hyperliquid, Pacifica}

\* C32 witness: Pacifica long and Hyperliquid short
C32_Witness ==
    /\ Reconstructed
    /\ RebuiltPosition.long_exchange = Pacifica
    /\ RebuiltPosition.short_exchange = Hyperliquid
    /\ pa[RebuiltPosition.symbol] > 0
    /\ hl[RebuiltPosition.symbol] < 0

\* the same, Hyperliquid long and Pacifica short
HyperliquidLongRebuilt ==
    /\ Reconstructed
    /\ RebuiltPosition.long_exchange = Hyperliquid
    /\ hl[RebuiltPosition.symbol] > 0
    /\ pa[RebuiltPosition.symbol] < 0

\* recover_state found no position in its scan and reset to IDLE
ResetToIdle ==
    /\ Recovered
    /\ ~last.refused
    /\ last.positions_found = <<>>
    /\ last.ret
    /\ GetState(state) = IDLE
    /\ state.current_position = None

\* C37: recover_state resets to IDLE with the Position cleared only if both
\* venues were queried successfully and reported zero for every configured
\* symbol: a query that fails is never taken as no position, so the bot is never
\* IDLE while a venue holds a quantity the scan failed to read.
C37_IdleOnlyIfEverySymbolReadFlat ==
    ResetToIdle =>
        /\ last.scan_fail = {}
        /\ \A i \in 1..Len(config.symbols_to_monitor) :
              /\ hl[config.symbols_to_monitor[i]] = 0
              /\ pa[config.symbols_to_monitor[i]] = 0

\* with every query answered, the reset to IDLE does mean both venues are flat
IdleAfterFullScanIsFlat ==
    (ResetToIdle /\ last.scan_fail = {}) =>
        \A i \in 1..Len(config.symbols_to_monitor) :
            /\ hl[config.symbols_to_monitor[i]] = 0
            /\ pa[config.symbols_to_monitor[i]] = 0

----------------------------------------------------------------------------
(* Claims about the opening orders *)

\* open_position computed a quantity and it rounded down to zero
RoundedToZero ==
    /\ Opened
    /\ last.final_quantity # None
    /\ last.final_quantity[1] = 0

\* C33: when the rounded quantity is zero the open is rejected: no market order
\* is placed on either venue and no Position is created.
C33_ZeroQuantityOpensNothing ==
    RoundedToZero =>
        /\ orders = <<>>
        /\ state.current_position = None
        /\ GetState(state) # HOLDING
        /\ last.opened_hl = 0
        /\ last.opened_pacifica = 0

\* C33 witness: a notional of 8 at a price of 50 rounds to zero and the open ends
\* in ERROR with nothing sent
C33_Witness ==
    /\ RoundedToZero
    /\ last.notional = 8
    /\ last.failed
    /\ GetState(state) = ERROR
    /\ orders = <<>>
    /\ \A x \in Symbols : hl[x] = 0 /\ pa[x] = 0

\* the opening orders sent to a venue (an opening order is not reduce-only)
OpeningOrdersTo(venue) ==
    SelectSeq(orders, LAMBDA o : o.venue = venue /\ ~o.reduce_only)

LongVenue == last.long_exch
ShortVenue == IF last.long_exch = Hyperliquid THEN Pacifica ELSE Hyperliquid
LongConfirmed ==
    IF last.long_exch = Hyperliquid THEN last.hl_confirmed ELSE last.pacifica_confirmed

\* the long leg's order goes first
LongLegFirst ==
    (Opened /\ orders # <<>>) =>
        /\ orders[1].venue = LongVenue
        /\ orders[1].side = "buy"
        /\ ~orders[1].reduce_only

\* C38: the two opening orders are sequential with the long leg first, and the
\* short leg's order is sent only if the long leg's order returned a fill: when
\* the first order returns no fill, no order is placed on the second venue.
C38_SecondLegOnlyAfterFirstFill ==
    /\ LongLegFirst
    /\ (Opened /\ ~LongConfirmed) => OpeningOrdersTo(ShortVenue) = <<>>

----------------------------------------------------------------------------
(* Claims about the analysis phase *)

Analysed == last.op = "start_new_cycle"

\* the ways out of the analysis the code takes by a return or on a
\* BalanceFetchError
ReturnedAborts ==
    {"balance_fetch_failed", "insufficient_balance", "no_opportunity", "below_threshold",
     "hl_leverage_failed", "pacifica_leverage_failed", "insufficient_capital"}
\* the leverage request on Hyperliquid raised instead of answering
RaisedAborts == {"hl_leverage_raised"}

NothingOpened ==
    /\ orders = <<>>
    /\ state.current_position = None
    /\ \A x \in Symbols : hl[x] = 0 /\ pa[x] = 0
    /\ pending = None

\* C34 as stated: every abort of the analysis phase (margin below 20 USD on a
\* venue, no opportunity reaching the threshold, leverage-setting failing on
\* either venue, balance fetch failing) ends in WAITING with no order placed and
\* the stored Position still empty.
C34_EveryAbortEndsWaiting ==
    (Analysed /\ last.outcome \in ReturnedAborts \cup RaisedAborts) =>
        /\ GetState(state) = WAITING
        /\ NothingOpened

\* C34 amended: an abort the code takes by a return or on a BalanceFetchError
\* ends in WAITING, a leverage request that raises ends in ERROR; in both cases
\* no order is placed and the stored Position stays empty.
C34_AbortEndsWaitingOrError ==
    /\ (Analysed /\ last.outcome \in ReturnedAborts) =>
           GetState(state) = WAITING /\ NothingOpened
    /\ (Analysed /\ last.outcome \in RaisedAborts) =>
           GetState(state) = ERROR /\ NothingOpened

\* C34 witness: the balance fetch failed and the cycle ended in WAITING with
\* nothing sent
C34_Witness ==
    /\ Analysed
    /\ last.outcome = "balance_fetch_failed"
    /\ GetState(state) = WAITING
    /\ NothingOpened

\* each of the other aborts happens
AbortsReached(outcome) == Analysed /\ last.outcome = outcome

\* the selection ran: both balances were read and were sufficient
SelectionRan ==
    Analysed /\ last.outcome \notin {"balance_fetch_failed", "insufficient_balance"}

\* read from the answers of the venues: the symbol has a rate on both venues,
\* and the spread between the two rates as an APR
RatedOnBoth(x) ==
    /\ last.hl_rates # None
    /\ last.hl_rates[1][x] # None
    /\ last.pacifica_rates[1][x] # None
Spread(x) == Abs(last.hl_rates[1][x][1] - last.pacifica_rates[1][x][1]) * 24 * 365 * 100
Candidates == {x \in {last.symbols[i] : i \in 1..Len(last.symbols)} : RatedOnBoth(x)}
PlaceOf(x) == CHOOSE i \in 1..Len(last.symbols) : last.symbols[i] = x
Rejected == last.outcome = "below_threshold"

\* C35: the selector chooses the symbol with the maximum net spread among the
\* monitored symbols that have a rate on both venues, the first one in the
\* configured order on ties, and rejects it (WAITING, nothing opened) if and
\* only if its net spread is strictly below the configured threshold.
C35_MaximumSpreadFirstOnTies ==
    SelectionRan =>
        /\ (last.chosen = None) <=> (Candidates = {})
        /\ last.chosen # None =>
              LET best == last.chosen[1].symbol IN
              /\ best \in Candidates
              /\ last.chosen[1].net_apr = Spread(best)
              /\ \A x \in Candidates :
                    /\ Spread(x) <= Spread(best)
                    /\ Spread(x) = Spread(best) => PlaceOf(best) <= PlaceOf(x)
              /\ Rejected <=> (Spread(best) < last.threshold * 1000000)
        /\ Rejected => GetState(state) = WAITING /\ NothingOpened

\* C35 witness: ETH and BTC tie at exactly the threshold of 219 percent with
\* ETH configured first: ETH is chosen and is not rejected
C35_Witness ==
    /\ SelectionRan
    /\ last.symbols = <<"ETH", "BTC">>
    /\ last.threshold = 219
    /\ Candidates = {"BTC", "ETH"}
    /\ Spread("BTC") = 219000000
    /\ Spread("ETH") = 219000000
    /\ last.chosen # None
    /\ last.chosen[1].symbol = "ETH"
    /\ last.outcome = "open"

\* a smaller spread on the first symbol is passed over, and a best spread below
\* the threshold is rejected
LaterSymbolChosen ==
    /\ SelectionRan
    /\ last.chosen # None
    /\ PlaceOf(last.chosen[1].symbol) = 2
    /\ Candidates = {"BTC", "ETH"}
BestRejected == SelectionRan /\ Rejected /\ last.threshold = 219 /\ Candidates # {}

\* the hourly rate a venue answered for a symbol
RateOn(venue, x) ==
    IF venue = Hyperliquid THEN last.hl_rates[1][x][1] ELSE last.pacifica_rates[1][x][1]
\* the APR an opportunity carries for a venue
AprOn(o, venue) == IF venue = Hyperliquid THEN o.hl_apr ELSE o.pacifica_apr
Venues == {Hyperliquid, Pacifica}

\* the opening orders open_position sent, in the order it sent them
OpeningOrders == SelectSeq(orders, LAMBDA o : ~o.reduce_only)

\* C36: for every opportunity net_spread = |aprA - aprB| >= 0, the long venue
\* is the venue with the lower rate and the short venue is the other one, and
\* the opening orders follow that assignment: a buy on the long venue and a
\* sell of the same quantity on the short venue.
C36_LongOnLowerRateBuyThereSellOther ==
    /\ SelectionRan =>
          \A i \in 1..Len(last.opportunities) :
              LET o == last.opportunities[i] IN
              /\ o.net_apr = Spread(o.symbol)
              /\ o.net_apr >= 0
              /\ {o.long_exch, o.short_exch} = Venues
              /\ RateOn(o.long_exch, o.symbol) <= RateOn(o.short_exch, o.symbol)
    /\ Opened =>
          LET o == last.opportunity IN
          /\ last.long_exch = o.long_exch
          /\ {o.long_exch, o.short_exch} = Venues
          /\ AprOn(o, o.long_exch) <= AprOn(o, o.short_exch)
          /\ o.net_apr = AprOn(o, o.short_exch) - AprOn(o, o.long_exch)
          /\ \A i \in 1..Len(OpeningOrders) :
                /\ OpeningOrders[i].symbol = o.symbol
                /\ OpeningOrders[i].quantity = last.final_quantity[1]
                /\ OpeningOrders[i].venue = o.long_exch => OpeningOrders[i].side = "buy"
                /\ OpeningOrders[i].venue = o.short_exch => OpeningOrders[i].side = "sell"
          /\ Len(OpeningOrders) <= 2
          /\ Len(OpeningOrders) = 2 => OpeningOrders[1].venue # OpeningOrders[2].venue
          /\ (~last.failed /\ HoldsNewPosition) =>
                /\ Len(OpeningOrders) = 2
                /\ state.current_position[1].long_exchange = o.long_exch
                /\ state.current_position[1].short_exchange = o.short_exch

\* C36 witness: Hyperliquid pays the lower rate, the position is opened with a
\* buy on Hyperliquid and a sell of the same quantity on Pacifica
C36_Witness ==
    /\ Opened
    /\ GetState(state) = HOLDING
    /\ last.opportunity.hl_apr < last.opportunity.pacifica_apr
    /\ last.opportunity.long_exch = Hyperliquid
    /\ Len(orders) = 2
    /\ orders[1].venue = Hyperliquid /\ orders[1].side = "buy"
    /\ orders[2].venue = Pacifica /\ orders[2].side = "sell"
    /\ orders[1].quantity = orders[2].quantity
    /\ orders[1].quantity > 0

\* the other orientation and the tie are reached too
PacificaLongOpened ==
    /\ Opened
    /\ GetState(state) = HOLDING
    /\ last.opportunity.long_exch = Pacifica
    /\ last.opportunity.pacifica_apr < last.opportunity.hl_apr
EqualRatesSeen ==
    /\ SelectionRan
    /\ \E i \in 1..Len(last.opportunities) : last.opportunities[i].net_apr = 0

----------------------------------------------------------------------------
(* Claims about what a close leaves on the venues *)

\* close_position cleared the stored Position and left WAITING
ClearedAndWaiting ==
    /\ Closed
    /\ state.current_position = None
    /\ GetState(state) = WAITING

\* C39: close_position clears the stored Position and goes to WAITING only when
\* both venues hold zero live quantity of the Position's symbol at that moment: a
\* confirmation that leaves a remainder on a venue is never counted as a flat
\* leg.
C39_ClearedOnlyWhenBothVenuesFlat ==
    ClearedAndWaiting => LegsFlat

\* what the code does guarantee: the Position is cleared only when both legs were
\* counted as closed, by a confirmation or by a query that showed no quantity
ClearedOnlyWhenCounted ==
    ClearedAndWaiting => CountedClosed

----------------------------------------------------------------------------
(* Claims about the state an iteration of the loop ends in *)

\* the states the loop dispatches on, and the ones a handler passes through
RestingStates == {IDLE, HOLDING, WAITING, ERROR}
TransientStates == {ANALYZING, OPENING, CLOSING}

\* a handler of the loop has returned to run()
HandlerReturned ==
    \/ last.op \in {"open_position", "close_position"}
    \/ last.op \in {"start_new_cycle", "monitor_position"} /\ pc \notin {"opening", "closing"}

\* the state in memory at the end of an iteration
EndsInRestingState ==
    /\ pc = "loop" => GetState(state) \in RestingStates
    /\ HandlerReturned => GetState(state) \in RestingStates

\* C40 as stated: when the process is never killed, every iteration of the loop
\* ends with the BotState in IDLE, HOLDING, WAITING or ERROR, in memory and as
\* persisted: no handler returns leaving ANALYZING, OPENING or CLOSING in the
\* state file.
C40_NoTransientStatePersisted ==
    /\ EndsInRestingState
    /\ (pc \in {"loop", "exited"} /\ fs[state_file].exists) => PersistedIn(RestingStates)

\* C40 amended: every iteration ends with the BotState in memory in IDLE,
\* HOLDING, WAITING or ERROR, and the state file says the same as long as no
\* save() has failed.
C40_RestingInMemoryAndOnDiskIfSaved ==
    /\ EndsInRestingState
    /\ (pc = "loop" /\ faults.save_failures = 0) => PersistedIn({GetState(state)})

\* C40 witness: open_position returned for want of a price and left WAITING in
\* memory and in the file
C40_Witness ==
    /\ Opened
    /\ pc = "loop"
    /\ last.final_quantity = None
    /\ ~last.failed
    /\ GetState(state) = WAITING
    /\ PersistedIn({WAITING})

\* a handler that returned after a failed save: the file still says OPENING
StaleTransientFile ==
    /\ pc = "loop"
    /\ GetState(state) \in RestingStates
    /\ PersistedIn({OPENING})

====
